---------------------------- MODULE Spec2Model ----------------------------
(***************************************************************************)
(* A model of the ear-training programs of this repository:                *)
(*   practice.py            Key, Gen, Session (the practice-session loop)  *)
(*   tones9-la0-modular.py  KeyBuilder, ChunkGenerator, PracticeSession    *)
(*   progression.py         Key, KeyboardListener, ProgressionSession      *)
(* Notes are strings, formatted and parsed as the programs do it.          *)
(***************************************************************************)
EXTENDS Integers, Sequences, FiniteSets, TLC

VARIABLES
    impl,       \* which program runs: "practice" or "tones9"
    sig,        \* Key.sig / KeyBuilder.signature
    min_oct,    \* Key.min_oct / KeyBuilder.min_octave
    max_oct,    \* Key.max_oct / KeyBuilder.max_octave
    scale,      \* Key.scale / KeyBuilder.expanded
    kpc,        \* position of the key construction: "new", "built", "asked"
    note,       \* the argument of the last degree() call
    deg,        \* the result of the last degree() call
    shape,      \* the chunk shape last generated ("none" before the first)
    draw,       \* the random draws of the last generation
    chunk,      \* the notes the last generation returned
    ton,        \* Session.ton ("none" in tones9, which has no tonality)
    cad,        \* Session.cad / PracticeSession.cadence_chord
    count,      \* Session.count / PracticeSession.counter
    now,        \* time.time() - self.start, in seconds
    spc,        \* position of run(): "off", "walk", "loop", "chunk", "done"
    degs,       \* the degrees looked up for the notes of the chunk
    log,        \* the sound events so far: "cadence" and "chunk"
    played,     \* the calls and sleeps of the dispatch of the last chunk
    progression_name,   \* the name given to ProgressionSession
    mode,               \* Key.mode (progression.py)
    label_ambiguities,  \* ProgressionSession.label_ambiguities
    chord_name,         \* the chord of the harmonic step
    chord_notes,        \* the notes get_chord_notes returned
    chosen_degree,      \* the chord tone get_random_melody_note drew
    melody_note,        \* the note get_random_melody_note returned
    label,              \* the label get_random_melody_note returned
    req_octave,         \* the octave asked of solfege_to_note for melody_note
    opts,               \* only_harmony, no_voice, audiate
    paused,             \* KeyboardListener.paused
    stop_requested,     \* KeyboardListener.stop_requested
    lpc,                \* position of the listener thread (_listen)
    ppc,                \* position of ProgressionSession.run
    ci,                 \* index of the chord in chord_sequence (for loop)
    ip,                 \* index of the instruction of the harmonic step
    wpc,                \* position inside wait_with_pause
    wdur,               \* duration of the wait, in poll intervals
    el,                 \* time.time() - start_time of the wait
    ran,                \* the part of el during which the mixer was not paused
    wres,               \* what the last wait returned: "none", "true", "false"
    chans,              \* state of the playback handles
    mixer_paused,       \* between pygame.mixer.pause() and unpause()
    events,             \* the sound and speech events of the harmonic step
    slept,              \* progress of a plain time.sleep of the scheduler
    lag,                \* time the scheduler slept since an unobserved Toggle
    unlocked,           \* the accesses to the flags made without the lock
    arg_key,            \* --key of the command line ("none": not given)
    arg_progression,    \* --progression of the command line
    mpc,                \* position of main()
    exit_code,          \* exit status of the program (-1: still running)
    player              \* whether Player was constructed (the mixer is open)

keyVars == <<impl, sig, min_oct, max_oct, scale, kpc, note, deg>>

genVars == <<shape, draw, chunk>>

sessVars == <<ton, cad, count, now, spc, degs, log, played>>

labelVars == <<progression_name, mode, label_ambiguities, chord_name,
               chord_notes, chosen_degree, melody_note, label, req_octave>>

mainVars == <<arg_key, arg_progression, mpc, exit_code, player>>

progVars == <<opts, paused, stop_requested, lpc, ppc, ci, ip, wpc, wdur, el,
              ran, wres, chans, mixer_paused, events, slept, lag, unlocked,
              mainVars>>

vars == <<keyVars, genVars, sessVars, labelVars, progVars>>

(***************************************************************************)
(* Bounds of the model.                                                    *)
(***************************************************************************)
\* octaves are drawn from 0..OctHi (two-digit octaves included)
OctHi == 10

\* random.choices draws len^k index tuples; the model draws the tuples
\* a, a+b, a+2b, ... (mod len) for every a and every b in 0..MaxStride
MaxStride == 1

\* SESSION_DUR is 40 * 60 seconds in the source; the modelled session has a
\* budget of SessionDur seconds
SessionDur == 28

\* the session runs on one of the first NSigs signatures of KEY_SIGS
NSigs == 1

\* the session draws start and root indices among the first and the last
\* MaxAt + 1 admissible ones
MaxAt == 0

(***************************************************************************)
(* Constants and helpers of practice.py and tones9-la0-modular.py.         *)
(***************************************************************************)
MIN_OCTAVE == 3
MAX_OCTAVE == 5

NOTE_TO_SEMI(n) ==
    CASE n = "C"  -> 0  [] n = "C#" -> 1  [] n = "Db" -> 1
      [] n = "D"  -> 2  [] n = "D#" -> 3  [] n = "Eb" -> 3
      [] n = "E"  -> 4  [] n = "Fb" -> 4  [] n = "E#" -> 5
      [] n = "F"  -> 5  [] n = "F#" -> 6  [] n = "Gb" -> 6
      [] n = "G"  -> 7  [] n = "G#" -> 8  [] n = "Ab" -> 8
      [] n = "A"  -> 9  [] n = "A#" -> 10 [] n = "Bb" -> 10
      [] n = "B"  -> 11 [] n = "Cb" -> 11

KEY_SIGS ==
    << <<"C","D","E","F","G","A","B">>,      <<"G","A","B","C","D","E","Gb">>,
       <<"F","G","A","Bb","C","D","E">>,     <<"D","E","Gb","G","A","B","Db">>,
       <<"A","B","Db","D","E","Gb","Ab">>,   <<"E","Gb","Ab","A","B","Db","Eb">>,
       <<"B","Db","Eb","E","Gb","Ab","Bb">>, <<"Gb","Ab","Bb","B","Db","Eb","F">>,
       <<"Bb","C","D","Eb","F","G","A">>,    <<"Eb","F","G","Ab","Bb","C","D">>,
       <<"Ab","Bb","C","Db","Eb","F","G">>,  <<"Db","Eb","F","Gb","Ab","Bb","C">>,
       <<"Gb","Ab","Bb","B","Db","Eb","F">>, <<"B","Db","Eb","E","Gb","Ab","Bb">> >>

\* wrap = lambda i,m: (i+m)%m
wrap(i, m) == (i + m) % m

\* f"{n}{octv}"
FmtNote(n, octv) == n \o ToString(octv)

\* note[:-1]
StripLast(s) == SubSeq(s, 1, Len(s) - 1)

\* list.index(x), 0-based; -1 stands for the ValueError of a missing element
IndexOf(sq, x) ==
    IF \E i \in 1..Len(sq) : sq[i] = x
    THEN (CHOOSE i \in 1..Len(sq) : sq[i] = x /\ \A j \in 1..(i-1) : sq[j] # x) - 1
    ELSE -1

(***************************************************************************)
(* Key.__post_init__ and KeyBuilder._expand: the expansion of a signature. *)
(* prev = "" stands for None (both are falsy in `if prev and ...`).        *)
(***************************************************************************)
\* a comparison the wrong way round
Wraps_lt(prev, n) == prev # "" /\ NOTE_TO_SEMI(prev) < NOTE_TO_SEMI(n)

\* if prev and NOTE_TO_SEMI[prev] > NOTE_TO_SEMI[n]
Wraps(prev, n) == prev # "" /\ NOTE_TO_SEMI(prev) > NOTE_TO_SEMI(n)

\* an off-by-one test of the octave bound
Exceeds_ge(octv, mx) == octv >= mx

\* octv > self.max_oct  (the negated while test, and the inner break test)
Exceeds(octv, mx) == octv > mx

\* for n in self.sig: ... ; st = [sc, octv, prev, broke], i the position in sig
RECURSIVE Key_for(_, _, _, _)
Key_for(sg, mx, st, i) ==
    IF i > Len(sg) THEN st
    ELSE LET n  == sg[i]
             o2 == IF Wraps(st.prev, n) THEN st.octv + 1 ELSE st.octv
         IN  IF Wraps(st.prev, n) /\ Exceeds(o2, mx)
             THEN [st EXCEPT !.octv = o2, !.broke = TRUE]
             ELSE Key_for(sg, mx,
                          [sc |-> Append(st.sc, FmtNote(n, o2)), octv |-> o2,
                           prev |-> n, broke |-> FALSE], i + 1)

\* while octv <= self.max_oct: for ...: ... else: continue; break
RECURSIVE Key_while(_, _, _)
Key_while(sg, mx, st) ==
    IF Exceeds(st.octv, mx) THEN st.sc
    ELSE LET r == Key_for(sg, mx, st, 1)
         IN  IF r.broke THEN r.sc ELSE Key_while(sg, mx, r)

\* an expansion that stops after the lowest octave
Key_post_init_single(sg, mn, mx) ==
    Key_while(sg, mn, [sc |-> <<>>, octv |-> mn, prev |-> "", broke |-> FALSE])

\* an expansion that starts one octave too high
Key_post_init_late(sg, mn, mx) ==
    Key_while(sg, mx, [sc |-> <<>>, octv |-> mn + 1, prev |-> "", broke |-> FALSE])

\* sc, octv, prev = [], self.min_oct, None
Key_post_init(sg, mn, mx) ==
    Key_while(sg, mx, [sc |-> <<>>, octv |-> mn, prev |-> "", broke |-> FALSE])

RECURSIVE KeyBuilder_for(_, _, _, _)
KeyBuilder_for(signature, max_octave, st, i) ==
    IF i > Len(signature) THEN st
    ELSE LET n  == signature[i]
             o2 == IF Wraps(st.prev_note, n) THEN st.octave + 1 ELSE st.octave
         IN  IF Wraps(st.prev_note, n) /\ Exceeds(o2, max_octave)
             THEN [st EXCEPT !.octave = o2, !.broke = TRUE]
             ELSE KeyBuilder_for(signature, max_octave,
                          [out |-> Append(st.out, FmtNote(n, o2)), octave |-> o2,
                           prev_note |-> n, broke |-> FALSE], i + 1)

RECURSIVE KeyBuilder_while(_, _, _)
KeyBuilder_while(signature, max_octave, st) ==
    IF Exceeds(st.octave, max_octave) THEN st.out
    ELSE LET r == KeyBuilder_for(signature, max_octave, st, 1)
         IN  IF r.broke THEN r.out ELSE KeyBuilder_while(signature, max_octave, r)

KeyBuilder_expand(signature, min_octave, max_octave) ==
    KeyBuilder_while(signature, max_octave,
        [out |-> <<>>, octave |-> min_octave, prev_note |-> "", broke |-> FALSE])

\* a degree that forgets to strip the octave
Key_degree_nostrip(sg, nt) == IndexOf(sg, nt)

\* Key.degree / KeyBuilder.degree: self.sig.index(note[:-1])
Key_degree(sg, nt) == IndexOf(sg, StripLast(nt))

(***************************************************************************)
(* The construction of a key, and degree queries on it.                    *)
(***************************************************************************)
\* no chunk generated yet
NoDraw == [size |-> 0, at |-> 0, step |-> 0, inv |-> 0]

GenIdle ==
    /\ shape = "none"
    /\ draw = NoDraw
    /\ chunk = <<>>

\* no session
SessIdle ==
    /\ ton = "none"
    /\ cad = <<>>
    /\ count = 0
    /\ now = 0
    /\ spc = "off"
    /\ degs = <<>>
    /\ log = <<>>
    /\ played = <<>>

\* no harmonic step
LabelIdle ==
    /\ progression_name = "none"
    /\ mode = "none"
    /\ label_ambiguities = <<>>
    /\ chord_name = "none"
    /\ chord_notes = <<>>
    /\ chosen_degree = "none"
    /\ melody_note = ""
    /\ label = ""
    /\ req_octave = -1

NoChans == [chord |-> "idle", melody |-> "idle", solo |-> "idle"]

\* no progression session
ProgIdle ==
    /\ opts = [only_harmony |-> FALSE, no_voice |-> FALSE, audiate |-> FALSE]
    /\ paused = FALSE
    /\ stop_requested = FALSE
    /\ lpc = "off"
    /\ ppc = "off"
    /\ ci = 0
    /\ ip = 0
    /\ wpc = "none"
    /\ wdur = 0
    /\ el = 0
    /\ ran = 0
    /\ wres = "none"
    /\ chans = NoChans
    /\ mixer_paused = FALSE
    /\ events = <<>>
    /\ slept = 0
    /\ lag = -1
    /\ unlocked = {}
    /\ arg_key = "none"
    /\ arg_progression = "none"
    /\ mpc = "off"
    /\ exit_code = -1
    /\ player = FALSE

Impls == {"practice", "tones9"}

KeyInit ==
    /\ impl \in Impls
    /\ sig \in {KEY_SIGS[k] : k \in 1..Len(KEY_SIGS)}
    /\ min_oct \in 0..OctHi
    /\ max_oct \in min_oct..OctHi
    /\ scale = <<>>
    /\ kpc = "new"
    /\ note = ""
    /\ deg = -1
    /\ GenIdle
    /\ SessIdle
    /\ LabelIdle
    /\ ProgIdle

\* the dataclass is constructed: __post_init__ sets the scale
PostInit ==
    /\ kpc = "new"
    /\ scale' = IF impl = "practice" THEN Key_post_init(sig, min_oct, max_oct)
                ELSE KeyBuilder_expand(sig, min_oct, max_oct)
    /\ kpc' = "built"
    /\ UNCHANGED <<impl, sig, min_oct, max_oct, note, deg>>
    /\ UNCHANGED <<genVars, sessVars, labelVars, progVars>>

\* degree(n) for a note n of the expanded scale; a query changes nothing of
\* the key, so each one is taken from the built key
Degree ==
    /\ kpc = "built"
    /\ \E i \in 1..Len(scale) :
          /\ note' = scale[i]
          /\ deg' = Key_degree(sig, scale[i])
    /\ kpc' = "asked"
    /\ UNCHANGED <<impl, sig, min_oct, max_oct, scale>>
    /\ UNCHANGED <<genVars, sessVars, labelVars, progVars>>

KeyNext == PostInit \/ Degree

SpecKey == KeyInit /\ [][KeyNext]_vars

(***************************************************************************)
(* Reading a note back: its spelling and its octave (all trailing digits). *)
(***************************************************************************)
Digits == <<"0","1","2","3","4","5","6","7","8","9">>

IsDigit(c) == \E d \in 1..10 : Digits[d] = c

DigitVal(c) == (CHOOSE d \in 1..10 : Digits[d] = c) - 1

\* the position of the first digit of a note
FirstDigit(nt) ==
    CHOOSE p \in 1..Len(nt) :
        /\ IsDigit(SubSeq(nt, p, p))
        /\ \A q \in 1..(p-1) : ~IsDigit(SubSeq(nt, q, q))

RECURSIVE DecVal(_)
DecVal(s) ==
    IF s = "" THEN 0
    ELSE DecVal(StripLast(s)) * 10 + DigitVal(SubSeq(s, Len(s), Len(s)))

NoteSpelling(nt) == SubSeq(nt, 1, FirstDigit(nt) - 1)

NoteOctave(nt) == DecVal(SubSeq(nt, FirstDigit(nt), Len(nt)))

\* octave*12 + pitch class
AbsPitch(nt) == NoteOctave(nt) * 12 + NOTE_TO_SEMI(NoteSpelling(nt))

(***************************************************************************)
(* Claims about the expanded scale.                                        *)
(***************************************************************************)
\* C1: for every key signature and every octave range min <= max, the
\* absolute pitch (octave*12 + pitch class) of the expanded scale never
\* decreases from a note to the next one.
C1_MonotonePitch ==
    kpc # "new" =>
        \A i \in 1..(Len(scale) - 1) : AbsPitch(scale[i]) <= AbsPitch(scale[i+1])

\* a built scale of at least two octaves whose octave changes inside a pass
C1_Witness ==
    /\ kpc = "built"
    /\ Len(scale) > 7
    /\ NoteOctave(scale[2]) > NoteOctave(scale[1])
    /\ AbsPitch(scale[1]) < AbsPitch(scale[2])

\* the notes of the last pass that would lie above max_oct: those from the
\* first descent of the pitch class inside the signature to its end
Dropped(sg) ==
    LET desc == {k \in 2..Len(sg) : NOTE_TO_SEMI(sg[k-1]) > NOTE_TO_SEMI(sg[k])}
    IN  IF desc = {} THEN 0
        ELSE Len(sg) + 1 - (CHOOSE k \in desc : \A j \in desc : k <= j)

CMajor == <<"C","D","E","F","G","A","B">>

CMajor3to5 ==
    <<"C3","D3","E3","F3","G3","A3","B3",
      "C4","D4","E4","F4","G4","A4","B4",
      "C5","D5","E5","F5","G5","A5","B5">>

\* C2: the expanded scale has 7 * (max - min + 1) notes minus the notes of
\* the partial final octave that would exceed max; for [C,D,E,F,G,A,B]
\* over [3,5] it is exactly C3, D3, ..., B5 (21 notes).
C2_Length ==
    kpc # "new" =>
        /\ Len(scale) = 7 * (max_oct - min_oct + 1) - Dropped(sig)
        /\ (sig = CMajor /\ min_oct = 3 /\ max_oct = 5) => scale = CMajor3to5

C2_Witness ==
    /\ kpc = "built"
    /\ sig = CMajor /\ min_oct = MIN_OCTAVE /\ max_oct = MAX_OCTAVE
    /\ Len(scale) = 21 /\ scale[1] = "C3" /\ scale[21] = "B5"

\* C3: for a note n of the expanded scale with a single-digit octave,
\* degree(n) is a d in 0..6 with signature[d] the spelling of n, and the
\* note at index d of the scale has the spelling of n.
C3_DegreeRoundTrip ==
    (kpc = "asked" /\ NoteOctave(note) < 10) =>
        /\ deg \in 0..6
        /\ sig[deg + 1] = NoteSpelling(note)
        /\ deg + 1 <= Len(scale)
        /\ NoteSpelling(scale[deg + 1]) = NoteSpelling(note)

\* the degree of a note that is not the first occurrence of its degree
C3_Witness ==
    /\ kpc = "asked"
    /\ NoteOctave(note) < 10
    /\ deg = 6
    /\ scale[deg + 1] # note
    /\ NoteSpelling(scale[deg + 1]) = NoteSpelling(note)

(***************************************************************************)
(* The chunk generators: Gen (practice.py), ChunkGenerator (tones9).       *)
(* Scale indices are 0-based as in the source; sc[i + 1] reads index i.    *)
(***************************************************************************)
\* random.choices(self.scale, k=size), for the drawn index tuple picks
Gen_random_chunk(sc, picks) == [i \in 1..Len(picks) |-> sc[picks[i] + 1]]

\* a run that stops at the end of the scale instead of wrapping
Gen_scale_chunk_clamped(sc, size, start, step) ==
    LET n == Cardinality({i \in 0..(size - 1) :
                             start + i * step \in 0..(Len(sc) - 1)})
    IN  [i \in 1..n |-> sc[start + (i - 1) * step + 1]]

\* a run that ignores the drawn direction
Gen_scale_chunk_up(sc, size, start, step) ==
    [i \in 1..size |-> sc[wrap(start + (i - 1), Len(sc)) + 1]]

\* [self.scale[wrap(start+i*step,self.len)] for i in range(size)]
Gen_scale_chunk(sc, size, start, step) ==
    [i \in 1..size |-> sc[wrap(start + (i - 1) * step, Len(sc)) + 1]]

\* ivl = (2,2,3)
ivl == <<2, 2, 3>>

\* for i in range(size): out.append(self.scale[cur]); cur=wrap(cur+ivl[i%3],len)
RECURSIVE Gen_arpeggio_loop(_, _, _, _, _)
Gen_arpeggio_loop(sc, size, i, cur, out) ==
    IF i >= size THEN out
    ELSE Gen_arpeggio_loop(sc, size, i + 1, wrap(cur + ivl[(i % 3) + 1], Len(sc)),
                           Append(out, sc[cur + 1]))

\* an arpeggio that steps before it reads the index
Gen_arpeggio_chunk_stepfirst(sc, size, root) ==
    Gen_arpeggio_loop(sc, size + 1, 1, wrap(root + ivl[1], Len(sc)), <<>>)

Gen_arpeggio_chunk(sc, size, root) == Gen_arpeggio_loop(sc, size, 0, root, <<>>)

\* a triad whose first inversion stops one scale step short of the octave
Gen_triad_short(sc, root, inv) ==
    LET idx == IF inv = 0 THEN <<root, root + 2, root + 4>>
               ELSE IF inv = 1 THEN <<root + 2, root + 4, root + 6>>
               ELSE <<root + 4, root + 7, root + 9>>
    IN  [i \in 1..3 |-> sc[idx[i] + 1]]

\* Gen.triad: a closed triad in the drawn inversion
Gen_triad(sc, root, inv) ==
    LET idx == IF inv = 0 THEN <<root, root + 2, root + 4>>
               ELSE IF inv = 1 THEN <<root + 2, root + 4, root + 7>>
               ELSE <<root + 4, root + 7, root + 9>>
    IN  [i \in 1..3 |-> sc[idx[i] + 1]]

\* ChunkGenerator.random_chunk
ChunkGenerator_random_chunk(sc, picks) == [i \in 1..Len(picks) |-> sc[picks[i] + 1]]

\* ChunkGenerator.scale_chunk
ChunkGenerator_scale_chunk(sc, size, start, step) ==
    [i \in 1..size |-> sc[wrap(start + (i - 1) * step, Len(sc)) + 1]]

\* intervals = (2, 2, 3)
intervals == <<2, 2, 3>>

RECURSIVE ChunkGenerator_arpeggio_loop(_, _, _, _, _)
ChunkGenerator_arpeggio_loop(sc, size, i, cursor, notes) ==
    IF i >= size THEN notes
    ELSE ChunkGenerator_arpeggio_loop(sc, size, i + 1,
                           wrap(cursor + intervals[(i % 3) + 1], Len(sc)),
                           Append(notes, sc[cursor + 1]))

\* ChunkGenerator._arpeggio_like: both branches of `if block` return notes
ChunkGenerator_arpeggio_like(sc, size, root_i, block) ==
    LET notes == ChunkGenerator_arpeggio_loop(sc, size, 0, root_i, <<>>)
    IN  IF block THEN notes ELSE notes

ChunkGenerator_arpeggio_chunk(sc, size, root_i) ==
    ChunkGenerator_arpeggio_like(sc, size, root_i, FALSE)

ChunkGenerator_chord_chunk(sc, size, root_i) ==
    ChunkGenerator_arpeggio_like(sc, size, root_i, TRUE)

\* the index tuples the model draws for random.choices(scale, k)
RandomPicks(len, k) ==
    {[i \in 1..k |-> wrap(a + b * (i - 1), len)] : a \in 0..(len - 1), b \in 0..MaxStride}

(***************************************************************************)
(* One call of a generator method on the key of the session               *)
(* (main: Key(sig) with the default octave range).  A generator keeps no   *)
(* state between calls, so every call is taken from the fresh generator.   *)
(***************************************************************************)
GenInit ==
    /\ impl \in Impls
    /\ sig \in {KEY_SIGS[k] : k \in 1..Len(KEY_SIGS)}
    /\ min_oct = MIN_OCTAVE
    /\ max_oct = MAX_OCTAVE
    /\ scale = IF impl = "practice" THEN Key_post_init(sig, min_oct, max_oct)
               ELSE KeyBuilder_expand(sig, min_oct, max_oct)
    /\ kpc = "built"
    /\ note = ""
    /\ deg = -1
    /\ GenIdle
    /\ SessIdle
    /\ LabelIdle
    /\ ProgIdle

\* random_chunk(): size = random.randint(1, 7)
RandomChunk ==
    /\ shape = "none"
    /\ \E size \in 1..7 : \E picks \in RandomPicks(Len(scale), size) :
          /\ draw' = [NoDraw EXCEPT !.size = size, !.at = picks[1]]
          /\ chunk' = IF impl = "practice" THEN Gen_random_chunk(scale, picks)
                      ELSE ChunkGenerator_random_chunk(scale, picks)
    /\ shape' = "random"
    /\ UNCHANGED <<keyVars, sessVars, labelVars, progVars>>

\* scale_chunk(): size = randint(3,12), start = randrange(len), step = +1 / -1
ScaleChunk ==
    /\ shape = "none"
    /\ \E size \in 3..12 : \E start \in 0..(Len(scale) - 1) : \E step \in {1, -1} :
          /\ draw' = [NoDraw EXCEPT !.size = size, !.at = start, !.step = step]
          /\ chunk' = IF impl = "practice" THEN Gen_scale_chunk(scale, size, start, step)
                      ELSE ChunkGenerator_scale_chunk(scale, size, start, step)
    /\ shape' = "scale"
    /\ UNCHANGED <<keyVars, sessVars, labelVars, progVars>>

\* arpeggio_chunk(): size = randint(3,17), root = randrange(len)
ArpeggioChunk ==
    /\ shape = "none"
    /\ \E size \in 3..17 : \E root \in 0..(Len(scale) - 1) :
          /\ draw' = [NoDraw EXCEPT !.size = size, !.at = root]
          /\ chunk' = IF impl = "practice" THEN Gen_arpeggio_chunk(scale, size, root)
                      ELSE ChunkGenerator_arpeggio_chunk(scale, size, root)
    /\ shape' = "arpeggio"
    /\ UNCHANGED <<keyVars, sessVars, labelVars, progVars>>

\* practice.py: chord_chunk = triad, root = randrange(0, len-9), inv in (0,1,2)
TriadChordChunk ==
    /\ shape = "none"
    /\ impl = "practice"
    /\ \E root \in 0..(Len(scale) - 10) : \E inv \in {0, 1, 2} :
          /\ draw' = [NoDraw EXCEPT !.size = 3, !.at = root, !.inv = inv]
          /\ chunk' = Gen_triad(scale, root, inv)
    /\ shape' = "chord"
    /\ UNCHANGED <<keyVars, sessVars, labelVars, progVars>>

\* practice.py: chord_melody_chunk = triad
ChordMelodyChunk ==
    /\ shape = "none"
    /\ impl = "practice"
    /\ \E root \in 0..(Len(scale) - 10) : \E inv \in {0, 1, 2} :
          /\ draw' = [NoDraw EXCEPT !.size = 3, !.at = root, !.inv = inv]
          /\ chunk' = Gen_triad(scale, root, inv)
    /\ shape' = "chord-melody"
    /\ UNCHANGED <<keyVars, sessVars, labelVars, progVars>>

\* tones9: chord_chunk = _arpeggio_like(block=True)
BlockChordChunk ==
    /\ shape = "none"
    /\ impl = "tones9"
    /\ \E size \in 3..17 : \E root_i \in 0..(Len(scale) - 1) :
          /\ draw' = [NoDraw EXCEPT !.size = size, !.at = root_i]
          /\ chunk' = ChunkGenerator_chord_chunk(scale, size, root_i)
    /\ shape' = "chord"
    /\ UNCHANGED <<keyVars, sessVars, labelVars, progVars>>

GenNext ==
    \/ RandomChunk
    \/ ScaleChunk
    \/ ArpeggioChunk
    \/ TriadChordChunk
    \/ ChordMelodyChunk
    \/ BlockChordChunk

SpecGen == GenInit /\ [][GenNext]_vars

(***************************************************************************)
(* Claims about the chunk generators.                                      *)
(***************************************************************************)
\* C4: random_chunk returns 1..7 notes, scale_chunk 3..12 and
\* arpeggio_chunk 3..17, each exactly the drawn size (never truncated).
C4_ChunkSizes ==
    /\ shape = "random"   => (Len(chunk) \in 1..7  /\ Len(chunk) = draw.size)
    /\ shape = "scale"    => (Len(chunk) \in 3..12 /\ Len(chunk) = draw.size)
    /\ shape = "arpeggio" => (Len(chunk) \in 3..17 /\ Len(chunk) = draw.size)

\* a descending run of 12 notes that wraps below the start of the scale
C4_Witness ==
    /\ shape = "scale"
    /\ draw.size = 12 /\ draw.step = -1 /\ draw.at = 2
    /\ Len(chunk) = 12
    /\ chunk[4] = scale[Len(scale)]

\* C5: chord_chunk returns exactly 3 notes in every generator that offers
\* a chord shape (Gen.chord_chunk and ChunkGenerator.chord_chunk).
C5_ChordHasThreeNotes ==
    shape = "chord" => Len(chunk) = 3

(***************************************************************************)
(* The practice session: Session (practice.py), PracticeSession (tones9).  *)
(***************************************************************************)
CAD_FREQ == 5

NOTE_DUR == 1

\* notes.reverse()
Reverse(sq) == [i \in 1..Len(sq) |-> sq[Len(sq) + 1 - i]]

\* degrees looked up with the octave still attached
Degrees_whole(sg, notes) == [i \in 1..Len(notes) |-> IndexOf(sg, notes[i])]

\* [self.g.key.degree(n) for n in notes]
Degrees(sg, notes) == [i \in 1..Len(notes) |-> Key_degree(sg, notes[i])]

\* a cadence that takes the roots of the other tonality
Session_cadence_swapped(sc, sg, tonality) ==
    LET roots == IF tonality = "major" THEN <<5, 1, 2, 5>> ELSE <<0, 3, 4, 0>>
    IN  [k \in 1..4 |->
            LET notes == <<sc[roots[k] + 1], sc[roots[k] + 3], sc[roots[k] + 5]>>
            IN  [notes |-> notes, degs |-> Degrees(sg, notes)]]

\* Session._cadence: four root-position triads on the cadence roots
Session_cadence(sc, sg, tonality) ==
    LET roots == IF tonality = "major" THEN <<0, 3, 4, 0>> ELSE <<5, 1, 2, 5>>
    IN  [k \in 1..4 |->
            LET notes == <<sc[roots[k] + 1], sc[roots[k] + 3], sc[roots[k] + 5]>>
            IN  [notes |-> notes, degs |-> Degrees(sg, notes)]]

\* PracticeSession.__init__: tonic_idx = [5, 0, 2]
PracticeSession_cadence_chord(sc) == <<sc[6], sc[1], sc[3]>>

\* kinds = [...] of run()
Kinds == IF impl = "practice"
         THEN {"random", "scale", "arpeggio", "chord", "chord-melody"}
         ELSE {"random", "scale", "arpeggio", "chord"}

\* the indices of 0..n-1 the session draws from
SessionAts(n) == {i \in 0..(n - 1) : i <= MaxAt \/ i >= n - 1 - MaxAt}

SessionPicks(len, k) ==
    {[i \in 1..k |-> wrap(a + b * (i - 1), len)] : a \in SessionAts(len), b \in 0..MaxStride}

\* getattr(self.g, f"{kind}_chunk")(): the pairs <<draws, notes>> it may return
Produced(kind) ==
    LET len == Len(scale)
        P   == impl = "practice"
    IN  CASE kind = "random" ->
               {<<[NoDraw EXCEPT !.size = Len(pk), !.at = pk[1]],
                  IF P THEN Gen_random_chunk(scale, pk)
                  ELSE ChunkGenerator_random_chunk(scale, pk)>> :
                    pk \in UNION {SessionPicks(len, k) : k \in 1..7}}
          [] kind = "scale" ->
               {<<[NoDraw EXCEPT !.size = x[1], !.at = x[2], !.step = x[3]],
                  IF P THEN Gen_scale_chunk(scale, x[1], x[2], x[3])
                  ELSE ChunkGenerator_scale_chunk(scale, x[1], x[2], x[3])>> :
                    x \in (3..12) \X SessionAts(len) \X {1, -1}}
          [] kind = "arpeggio" ->
               {<<[NoDraw EXCEPT !.size = x[1], !.at = x[2]],
                  IF P THEN Gen_arpeggio_chunk(scale, x[1], x[2])
                  ELSE ChunkGenerator_arpeggio_chunk(scale, x[1], x[2])>> :
                    x \in (3..17) \X SessionAts(len)}
          [] kind \in {"chord", "chord-melody"} /\ P ->
               {<<[NoDraw EXCEPT !.size = 3, !.at = x[1], !.inv = x[2]],
                  Gen_triad(scale, x[1], x[2])>> :
                    x \in SessionAts(len - 9) \X {0, 1, 2}}
          [] kind = "chord" /\ ~P ->
               {<<[NoDraw EXCEPT !.size = x[1], !.at = x[2]],
                  ChunkGenerator_chord_chunk(scale, x[1], x[2])>> :
                    x \in (3..17) \X SessionAts(len)}

\* a length test that lets two-note chunks through
TooShort_2(notes) == Len(notes) < 2

\* if len(notes)<3: continue
TooShort(notes) == Len(notes) < 3

\* a session that may reverse a chunk of any kind
MayReverse_all(kind) == TRUE

\* practice.py reverses only random, scale and arpeggio chunks; tones9 any
MayReverse(kind) == impl = "tones9" \/ kind \in {"random", "scale", "arpeggio"}

\* a cadence test made on the counter of the chunk after this one
CadenceDue_next(c) == (c + 1) % CAD_FREQ = 0

\* if self.count%self.CAD_FREQ==0
CadenceDue(c) == c % CAD_FREQ = 0

\* the seconds the cadence sleeps: four chords (practice), the tonic chord
\* twice (tones9)
CadenceDur == IF impl = "practice" THEN 4 * NOTE_DUR ELSE 2 * NOTE_DUR

\* the seconds the dispatch of a chunk sleeps
PlayDur(kind, notes) ==
    CASE kind = "chord"        -> NOTE_DUR + 6 + NOTE_DUR
      [] kind = "chord-melody" -> (NOTE_DUR + 1 + NOTE_DUR + 5) + (NOTE_DUR + 1 + NOTE_DUR)
      [] kind = "arpeggio"     -> Len(notes) * NOTE_DUR + 6 + Len(notes) * NOTE_DUR
      [] OTHER                 -> Len(notes) * NOTE_DUR

\* main() and Session.__init__: the key, the generator, start time, counter
\* and cadence of a session
SessInit ==
    /\ impl \in Impls
    /\ sig \in {KEY_SIGS[k] : k \in 1..NSigs}
    /\ min_oct = MIN_OCTAVE
    /\ max_oct = MAX_OCTAVE
    /\ scale = IF impl = "practice" THEN Key_post_init(sig, min_oct, max_oct)
               ELSE KeyBuilder_expand(sig, min_oct, max_oct)
    /\ kpc = "built"
    /\ note = ""
    /\ deg = -1
    /\ GenIdle
    /\ ton \in IF impl = "practice" THEN {"minor", "major"} ELSE {"none"}
    /\ cad = IF impl = "practice" THEN Session_cadence(scale, sig, ton)
             ELSE PracticeSession_cadence_chord(scale)
    /\ count = 0
    /\ now = 0
    /\ spc = "walk"
    /\ degs = <<>>
    /\ log = <<>>
    /\ played = <<>>
    /\ LabelIdle
    /\ ProgIdle

\* the initial scale walk: eight notes of NOTE_DUR seconds
ScaleWalk ==
    /\ spc = "walk"
    /\ now' = now + 8 * NOTE_DUR
    /\ spc' = "loop"
    /\ UNCHANGED <<keyVars, genVars, ton, cad, count, degs, log, played, labelVars, progVars>>

\* the while test fails: "Session complete"
LoopExit ==
    /\ spc = "loop"
    /\ ~(now < SessionDur)
    /\ spc' = "done"
    /\ UNCHANGED <<keyVars, genVars, ton, cad, count, now, degs, log, played,
                   labelVars, progVars>>

\* a chunk of fewer than 3 notes is generated: continue
Discard ==
    /\ spc = "loop"
    /\ now < SessionDur
    /\ \E kind \in Kinds : \E c \in Produced(kind) :
          /\ TooShort(c[2])
          /\ shape' = kind
          /\ draw' = c[1]
          /\ chunk' = c[2]
    /\ UNCHANGED <<keyVars, sessVars, labelVars, progVars>>

\* a chunk is generated, kept, perhaps reversed, and its degrees looked up
\* (practice.py; a failed lookup is an uncaught ValueError)
Accept ==
    /\ spc = "loop"
    /\ now < SessionDur
    /\ \E kind \in Kinds : \E c \in Produced(kind) : \E rev \in BOOLEAN :
          /\ ~TooShort(c[2])
          /\ rev => MayReverse(kind)
          /\ shape' = kind
          /\ draw' = c[1]
          /\ chunk' = IF rev THEN Reverse(c[2]) ELSE c[2]
    /\ degs' = IF impl = "practice" THEN Degrees(sig, chunk') ELSE <<>>
    /\ spc' = IF \E i \in 1..Len(degs') : degs'[i] = -1 THEN "crashed" ELSE "chunk"
    /\ UNCHANGED <<keyVars, ton, cad, count, now, log, played, labelVars, progVars>>

\* the cadence when it is due, the playback of the chunk, count += 1
\* (tones9 looks the degrees up while playing, except for a chord).
\* kind, notes and degs are assigned anew before run() reads them again:
\* the played chunk is dropped from the state.
Play ==
    /\ spc = "chunk"
    /\ LET due == CadenceDue(count)
           dg  == IF impl = "tones9" /\ shape # "chord"
                  THEN Degrees(sig, chunk) ELSE degs
       IN  IF \E i \in 1..Len(dg) : dg[i] = -1
           THEN /\ spc' = "crashed"
                /\ log' = IF due THEN Append(log, "cadence") ELSE log
                /\ now' = now + (IF due THEN CadenceDur ELSE 0)
                /\ degs' = dg
                /\ UNCHANGED <<genVars, count>>
           ELSE /\ spc' = "loop"
                /\ log' = Append(IF due THEN Append(log, "cadence") ELSE log, "chunk")
                /\ now' = now + (IF due THEN CadenceDur ELSE 0) + PlayDur(shape, chunk)
                /\ count' = count + 1
                /\ degs' = <<>>
                /\ shape' = "none"
                /\ draw' = NoDraw
                /\ chunk' = <<>>
    /\ UNCHANGED <<keyVars, ton, cad, played, labelVars, progVars>>

\* the sample of a note of the chunk is missing: Player._snd (practice.py)
\* and SoundPlayer._load (tones9) raise, play and run() catch nothing but
\* KeyboardInterrupt, so the exception ends run().  The cadence, when due,
\* was played before; the locals of run() are gone.
PlayMissing ==
    /\ spc = "chunk"
    /\ spc' = "failed"
    /\ log' = IF CadenceDue(count) THEN Append(log, "cadence") ELSE log
    /\ now' = now + (IF CadenceDue(count) THEN CadenceDur ELSE 0)
    /\ degs' = <<>>
    /\ shape' = "none"
    /\ draw' = NoDraw
    /\ chunk' = <<>>
    /\ UNCHANGED <<keyVars, ton, cad, count, played, labelVars, progVars>>

SessNext ==
    \/ ScaleWalk
    \/ LoopExit
    \/ Discard
    \/ Accept
    \/ Play
    \/ PlayMissing

SpecSession == SessInit /\ [][SessNext]_vars

(***************************************************************************)
(* Claims about the practice session loop.                                 *)
(***************************************************************************)
\* the number of chunks played before position p of the log
ChunksBefore(p) == Cardinality({q \in 1..(p - 1) : log[q] = "chunk"})

\* the cadence sounds exactly before the played chunks 0, K, 2K, ...
CadenceOnMultiples ==
    /\ \A p \in 1..Len(log) :
          /\ log[p] = "cadence" =>
                /\ ChunksBefore(p) % CAD_FREQ = 0
                /\ p < Len(log) /\ log[p + 1] = "chunk"
          /\ (log[p] = "chunk" /\ ChunksBefore(p) % CAD_FREQ = 0) =>
                (p > 1 /\ log[p - 1] = "cadence")
    /\ count = ChunksBefore(Len(log) + 1)

\* a step of the loop that discards the chunk it generated
DiscardStep == spc = "loop" /\ spc' = "loop" /\ Len(chunk') < 3

\* C6: the cadence is played exactly before the played chunks numbered
\* 0, K, 2K, ... (K = CAD_FREQ) and before no other chunk; a discarded chunk
\* neither triggers a cadence nor advances the chunk counter.
C6_CadenceEveryK ==
    /\ [](spc \in {"loop", "chunk", "done"} => CadenceOnMultiples)
    /\ [][DiscardStep => (log' = log /\ count' = count)]_vars

\* the second cadence has sounded, right before the sixth played chunk
C6_Witness ==
    /\ spc = "loop"
    /\ count = CAD_FREQ + 1
    /\ log = <<"cadence", "chunk", "chunk", "chunk", "chunk", "chunk",
               "cadence", "chunk">>

\* a step of the loop that hands a chunk to playback
AcceptStep == spc = "loop" /\ spc' = "chunk"

\* C7: every chunk that reaches playback has at least 3 notes; a generated
\* chunk with fewer than 3 notes is discarded with no sound played and the
\* chunk counter unchanged, and the loop generates a new one.
C7_ShortChunksDiscarded ==
    /\ [](spc = "chunk" => Len(chunk) >= 3)
    /\ [][(spc = "loop" /\ chunk' # chunk) =>
            IF Len(chunk') < 3
            THEN spc' = "loop" /\ log' = log /\ count' = count /\ now' = now
            ELSE spc' = "chunk"]_vars
    /\ [][(spc = "chunk" /\ log' # log) => Len(chunk) >= 3]_vars

\* a two-note chunk was discarded after some chunks had been played
C7_Witness ==
    /\ spc = "loop"
    /\ shape = "random"
    /\ Len(chunk) = 2
    /\ count = 2
    /\ now < SessionDur

-----------------------------------------------------------------------------
\* progression.py: solfege, chords and progressions

CHORD_OCTAVE_RANGE == <<3, 4>>

MELODY_OCTAVE_RANGE == <<5, 6>>

MINOR_MODE_OFFSET == 9

\* the keys of NOTE_TO_SEMI in the order the dict is iterated
NOTE_NAMES ==
    <<"C", "C#", "Db", "D", "D#", "Eb", "E", "Fb", "E#", "F",
      "F#", "Gb", "G", "G#", "Ab", "A", "A#", "Bb", "B", "Cb">>

\* SOLFEGE_TO_SEMI.get(s, 0)
SOLFEGE_TO_SEMI(s) ==
    CASE s = "do" -> 0 [] s = "di" -> 1 [] s = "ra" -> 1 [] s = "re" -> 2
      [] s = "ri" -> 3 [] s = "me" -> 3 [] s = "mi" -> 4 [] s = "fa" -> 5
      [] s = "fi" -> 6 [] s = "se" -> 6 [] s = "sol" -> 7 [] s = "si" -> 8
      [] s = "le" -> 8 [] s = "la" -> 9 [] s = "li" -> 10 [] s = "te" -> 10
      [] s = "ti" -> 11 [] OTHER -> 0

\* SOLFEGE_PRONUNCIATION.get(s, s)
SOLFEGE_PRONUNCIATION(s) ==
    CASE s = "do" -> "doe" [] s = "re" -> "ray" [] s = "mi" -> "me"
      [] s = "fa" -> "far" [] s = "sol" -> "so" [] s = "la" -> "la"
      [] s = "ti" -> "tea" [] s = "di" -> "dee" [] s = "ra" -> "rah"
      [] s = "ri" -> "ree" [] s = "me" -> "may" [] s = "fi" -> "fee"
      [] s = "se" -> "say" [] s = "si" -> "see" [] s = "le" -> "lay"
      [] s = "li" -> "lee" [] s = "te" -> "tay" [] OTHER -> s

\* KEY_SIGS of progression.py (sharps and flats)
KEY_SIGS_progression ==
    << <<"C", "D", "E", "F", "G", "A", "B">>,
       <<"G", "A", "B", "C", "D", "E", "F#">>,
       <<"F", "G", "A", "Bb", "C", "D", "E">>,
       <<"D", "E", "F#", "G", "A", "B", "C#">>,
       <<"A", "B", "C#", "D", "E", "F#", "G#">>,
       <<"E", "F#", "G#", "A", "B", "C#", "D#">>,
       <<"B", "C#", "D#", "E", "F#", "G#", "A#">>,
       <<"F#", "G#", "A#", "B", "C#", "D#", "E#">>,
       <<"Bb", "C", "D", "Eb", "F", "G", "A">>,
       <<"Eb", "F", "G", "Ab", "Bb", "C", "D">>,
       <<"Ab", "Bb", "C", "Db", "Eb", "F", "G">>,
       <<"Db", "Eb", "F", "Gb", "Ab", "Bb", "C">>,
       <<"Gb", "Ab", "Bb", "Cb", "Db", "Eb", "F">> >>

ChordDef(d, q) == [degrees |-> d, quality |-> q]

ChordNames ==
    {"la_minor", "re_minor", "mi_minor", "do_major", "fa_major", "sol_major",
     "mi_dominant", "re_dominant", "mi7_dominant", "la_minor_dm",
     "re_minor_gm", "fa_major_bb", "la7_dominant", "re7_dominant",
     "sol7_dominant", "fa_minor", "re_minor7", "do_major7", "fa_major7"}

CHORD_DEFS ==
    [c \in ChordNames |->
        CASE c = "la_minor" -> ChordDef(<<"la", "do", "mi">>, "minor")
          [] c = "re_minor" -> ChordDef(<<"re", "fa", "la">>, "minor")
          [] c = "mi_minor" -> ChordDef(<<"mi", "sol", "ti">>, "minor")
          [] c = "do_major" -> ChordDef(<<"do", "mi", "sol">>, "major")
          [] c = "fa_major" -> ChordDef(<<"fa", "la", "do">>, "major")
          [] c = "sol_major" -> ChordDef(<<"sol", "ti", "re">>, "major")
          [] c = "mi_dominant" ->
                ChordDef(<<"mi", "si", "ti", "re">>, "dominant")
          [] c = "re_dominant" ->
                ChordDef(<<"re", "fi", "la", "do">>, "dominant")
          [] c = "mi7_dominant" ->
                ChordDef(<<"mi", "si", "ti", "re">>, "dominant")
          [] c = "la_minor_dm" -> ChordDef(<<"la", "do", "mi">>, "minor")
          [] c = "re_minor_gm" -> ChordDef(<<"re", "fa", "la">>, "minor")
          [] c = "fa_major_bb" -> ChordDef(<<"fa", "la", "do">>, "major")
          [] c = "la7_dominant" ->
                ChordDef(<<"la", "di", "mi", "sol">>, "dominant")
          [] c = "re7_dominant" ->
                ChordDef(<<"re", "fi", "la", "do">>, "dominant")
          [] c = "sol7_dominant" ->
                ChordDef(<<"sol", "ti", "re", "fa">>, "dominant")
          [] c = "fa_minor" -> ChordDef(<<"fa", "le", "do">>, "minor")
          [] c = "re_minor7" ->
                ChordDef(<<"re", "fa", "la", "do">>, "minor7")
          [] c = "do_major7" ->
                ChordDef(<<"do", "mi", "sol", "ti">>, "major7")
          [] c = "fa_major7" ->
                ChordDef(<<"fa", "la", "do", "mi">>, "major7")]

ProgressionNames ==
    {"dark_eyes", "minor_swing", "superpop", "primary", "primary_minor",
     "all_of_me", "autumn_leaves_start"}

PROGRESSIONS ==
    [p \in ProgressionNames |->
        CASE p = "dark_eyes" ->
                [chords |-> <<"mi7_dominant", "la_minor_dm", "mi7_dominant",
                              "fa_major_bb", "re_minor_gm", "la_minor_dm",
                              "mi7_dominant", "la_minor_dm">>,
                 mode |-> "minor"]
          [] p = "minor_swing" ->
                [chords |-> <<"la_minor", "la_minor", "re_minor", "re_minor",
                              "mi_dominant", "mi_dominant", "la_minor",
                              "la_minor", "re_minor", "re_minor", "la_minor",
                              "la_minor", "mi_dominant", "mi_dominant",
                              "la_minor", "mi_dominant">>,
                 mode |-> "minor"]
          [] p = "superpop" ->
                [chords |-> <<"do_major", "sol_major", "la_minor",
                              "fa_major">>,
                 mode |-> "major"]
          [] p = "primary" ->
                [chords |-> <<"do_major", "fa_major", "la_minor", "re_minor",
                              "sol_major", "do_major">>,
                 mode |-> "major"]
          [] p = "primary_minor" ->
                [chords |-> <<"la_minor", "re_minor", "sol_major", "do_major",
                              "mi_dominant", "la_minor">>,
                 mode |-> "minor"]
          [] p = "all_of_me" ->
                [chords |-> <<"do_major", "do_major", "mi7_dominant",
                              "mi7_dominant", "la7_dominant", "la7_dominant",
                              "re_minor", "re_minor", "mi7_dominant",
                              "mi7_dominant", "la_minor", "la_minor",
                              "re7_dominant", "re7_dominant", "sol7_dominant",
                              "sol7_dominant", "do_major", "do_major",
                              "mi7_dominant", "mi7_dominant", "la7_dominant",
                              "la7_dominant", "re_minor", "re_minor",
                              "fa_major", "fa_minor", "do_major",
                              "la7_dominant", "re_minor", "sol7_dominant",
                              "do_major", "sol7_dominant">>,
                 mode |-> "major"]
          [] p = "autumn_leaves_start" ->
                [chords |-> <<"re_minor7", "sol7_dominant", "do_major7",
                              "fa_major7", "re_minor7", "sol7_dominant",
                              "do_major7", "fa_major7">>,
                 mode |-> "major"]]

-----------------------------------------------------------------------------
\* progression.py: notes and labels of a harmonic step

\* c in s, for a one-character string c
HasChar(s, c) == \E i \in 1..Len(s) : SubSeq(s, i, i) = c

\* the first key of NOTE_TO_SEMI, in dict order, among the indices cand
FirstOf(cand) == NOTE_NAMES[CHOOSE i \in cand : \A j \in cand : i <= j]

\* a conversion that takes la for do in minor mode
Key_solfege_to_note_tonic(sg, md, solfege, octave) ==
    LET semi_offset == SOLFEGE_TO_SEMI(solfege)
        target_semi ==
            IF md = "minor"
            THEN (NOTE_TO_SEMI(sg[6]) + semi_offset) % 12
            ELSE (NOTE_TO_SEMI(sg[1]) + semi_offset) % 12
        same == {i \in DOMAIN NOTE_NAMES :
                    NOTE_TO_SEMI(NOTE_NAMES[i]) = target_semi}
    IN  FmtNote(FirstOf(same), octave)

\* Key.solfege_to_note
Key_solfege_to_note(sg, md, solfege, octave) ==
    LET semi_offset == SOLFEGE_TO_SEMI(solfege)
        target_semi ==
            IF md = "minor"
            THEN (NOTE_TO_SEMI(sg[6]) + semi_offset - MINOR_MODE_OFFSET) % 12
            ELSE (NOTE_TO_SEMI(sg[1]) + semi_offset) % 12
        same == {i \in DOMAIN NOTE_NAMES :
                    NOTE_TO_SEMI(NOTE_NAMES[i]) = target_semi}
        natural == {i \in same : /\ ~HasChar(NOTE_NAMES[i], "#")
                                 /\ ~HasChar(NOTE_NAMES[i], "b")}
    IN  IF natural # {} THEN FmtNote(FirstOf(natural), octave)
        ELSE IF same # {} THEN FmtNote(FirstOf(same), octave)
        ELSE FmtNote("C", octave)

\* ['1', '3', '5', '7'][i] if i < 4 else '1', for the 0-based index i
Position(i) == IF i >= 0 /\ i < 4 THEN <<"1", "3", "5", "7">>[i + 1] ELSE "1"

LabelKey(degree, position) == degree \o "_" \o position

\* set(self.chord_sequence)
ChordSet(chord_sequence) ==
    {chord_sequence[i] : i \in DOMAIN chord_sequence}

\* the label keys of one chord
KeysOf(c) ==
    {LabelKey(CHORD_DEFS[c].degrees[i], Position(i - 1)) :
        i \in DOMAIN CHORD_DEFS[c].degrees}

\* a variant that qualifies every label
Ambiguous_any(v) == Cardinality(v) > 0

\* len(v) > 1
Ambiguous(v) == Cardinality(v) > 1

ProgressionSession_analyze_label_ambiguities(chord_sequence) ==
    LET chordset == ChordSet(chord_sequence)
        keys == UNION {KeysOf(c) : c \in chordset}
        label_to_qualities ==
            [k \in keys |->
                {CHORD_DEFS[c].quality : c \in {x \in chordset : k \in KeysOf(x)}}]
    IN  [k \in {x \in keys : Ambiguous(label_to_qualities[x])} |->
            label_to_qualities[k]]

\* octaves: the three draws of random.choice(self.chord_octaves)
ProgressionSession_get_chord_notes(sg, md, c, octaves) ==
    LET degrees == CHORD_DEFS[c].degrees
    IN  [i \in 1..3 |-> Key_solfege_to_note(sg, md, degrees[i], octaves[i])]

\* <<melody_note, label>> for the drawn chord tone and octave
ProgressionSession_get_random_melody_note(sg, md, amb, c, chosen, octave) ==
    LET degrees == CHORD_DEFS[c].degrees
        quality == CHORD_DEFS[c].quality
        note_ == Key_solfege_to_note(sg, md, chosen, octave)
        position == Position(IndexOf(degrees, chosen))
        degree_pronunciation == SOLFEGE_PRONUNCIATION(chosen)
        label_key == LabelKey(chosen, position)
    IN  IF label_key \in DOMAIN amb
        THEN <<note_, degree_pronunciation \o ", " \o position
                        \o ", " \o quality>>
        ELSE <<note_, degree_pronunciation \o ", " \o position>>

OctaveDraws(range) == [1..3 -> {range[1], range[2]}]

\* ProgressionSession.__init__ for a progression and a key of main()
LabelInit ==
    /\ impl = "progression"
    /\ sig \in {KEY_SIGS_progression[i] : i \in DOMAIN KEY_SIGS_progression}
    /\ min_oct = 0 /\ max_oct = 0 /\ scale = <<>> /\ kpc = "idle"
    /\ note = "" /\ deg = 0
    /\ GenIdle
    /\ SessIdle
    /\ progression_name \in ProgressionNames
    /\ mode = PROGRESSIONS[progression_name].mode
    /\ label_ambiguities =
        ProgressionSession_analyze_label_ambiguities(
            PROGRESSIONS[progression_name].chords)
    /\ chord_name = "none"
    /\ chord_notes = <<>>
    /\ chosen_degree = "none"
    /\ melody_note = ""
    /\ label = ""
    /\ req_octave = -1
    /\ ProgIdle

\* the notes of a chord of the progression (run, harmony only)
GetChordNotes ==
    /\ chord_name = "none"
    /\ \E c \in ChordSet(PROGRESSIONS[progression_name].chords),
          octaves \in OctaveDraws(CHORD_OCTAVE_RANGE) :
        /\ chord_name' = c
        /\ chord_notes' =
            ProgressionSession_get_chord_notes(sig, mode, c, octaves)
    /\ UNCHANGED <<keyVars, genVars, sessVars, progVars, progression_name,
                   mode, label_ambiguities, chosen_degree, melody_note, label,
                   req_octave>>

\* the notes, the melody note and the label of a chord of the progression
GetRandomMelodyNote ==
    /\ chord_name = "none"
    /\ \E c \in ChordSet(PROGRESSIONS[progression_name].chords),
          octaves \in OctaveDraws(CHORD_OCTAVE_RANGE),
          octave \in {MELODY_OCTAVE_RANGE[1], MELODY_OCTAVE_RANGE[2]} :
        \E k \in DOMAIN CHORD_DEFS[c].degrees :
            LET chosen == CHORD_DEFS[c].degrees[k]
                r == ProgressionSession_get_random_melody_note(
                        sig, mode, label_ambiguities, c, chosen, octave)
            IN  /\ chord_name' = c
                /\ chord_notes' =
                    ProgressionSession_get_chord_notes(sig, mode, c, octaves)
                /\ chosen_degree' = chosen
                /\ melody_note' = r[1]
                /\ req_octave' = octave
                /\ label' = r[2]
    /\ UNCHANGED <<keyVars, genVars, sessVars, progVars, progression_name,
                   mode, label_ambiguities>>

LabelNext == GetChordNotes \/ GetRandomMelodyNote

SpecLabel == LabelInit /\ [][LabelNext]_vars

\* the qualities under which the pair (degree, position in chord) occurs
\* in the chords of progression p
QualitiesOfPair(p, degree, i) ==
    {CHORD_DEFS[c].quality :
        c \in {x \in ChordSet(PROGRESSIONS[p].chords) :
                 /\ i \in DOMAIN CHORD_DEFS[x].degrees
                 /\ CHORD_DEFS[x].degrees[i] = degree}}

\* the place of the chosen tone in the chord of the step
ChosenAt ==
    CHOOSE i \in DOMAIN CHORD_DEFS[chord_name].degrees :
        CHORD_DEFS[chord_name].degrees[i] = chosen_degree

PlainLabel ==
    SOLFEGE_PRONUNCIATION(chosen_degree) \o ", "
        \o <<"1", "3", "5", "7">>[ChosenAt]

\* C8: for every progression and every chord tone chosen as melody, the
\* label carries the chord quality exactly when the same (degree, position)
\* pair occurs in the chords of the progression under more than one
\* quality; otherwise it is the pronunciation and the position alone.
C8_QualifierIffAmbiguous ==
    label # "" =>
        IF Cardinality(QualitiesOfPair(progression_name, chosen_degree,
                                       ChosenAt)) > 1
        THEN label = PlainLabel \o ", " \o CHORD_DEFS[chord_name].quality
        ELSE label = PlainLabel

\* all_of_me has la at position 1 under minor and dominant: the label of la
\* on la_minor is qualified
C8_Witness ==
    /\ progression_name = "all_of_me"
    /\ chord_name = "la_minor"
    /\ chosen_degree = "la"
    /\ label = "la, 1, minor"

-----------------------------------------------------------------------------
\* progression.py: the scheduler (ProgressionSession.run), the listener
\* thread (KeyboardListener._listen) and the mixer.  Time is counted in poll
\* intervals of wait_with_pause (0.05 s).  The notes and the label of a
\* harmonic step do not influence the control of run; they are followed in
\* SpecLabel, and here a sound is known by its kind only.

\* time.sleep(0.05), the unit of time
POLL == 1

\* time.sleep(0.1) of the inner loop of wait_with_pause
PAUSE_POLL == 2

\* WAIT_TIME, in poll intervals
WaitPolls == 3

\* chord_melody_dur = CHORD_DURATION * 0.35, in poll intervals
ChordMelodyPolls == 2

\* melody_only_dur = CHORD_DURATION * 0.25, in poll intervals
MelodyOnlyPolls == 1

\* the pause for readability (0.5 s), in poll intervals
ReadPolls == 1

\* the sleeps of play_scale (8 * 0.4 s + 0.5 s), in poll intervals
ScalePolls == 3

\* CHORD_DURATION, the sleep of play_chord_only, in poll intervals
ChordPolls == 4

LagCap == PAUSE_POLL + POLL

\* the progressions the scheduler is followed on
SchedProgressions == {"superpop"}

\* the command lines of main(): with --only-harmony the two other flags
\* are never read
Options ==
    {o \in [only_harmony : BOOLEAN, no_voice : BOOLEAN, audiate : BOOLEAN] :
        o.only_harmony => (~o.no_voice /\ ~o.audiate)}

Min(a, b) == IF a < b THEN a ELSE b

Ins(op, d) == [op |-> op, d |-> d]

\* say_label, or print and a short wait
Announce(o) ==
    IF ~o.no_voice THEN <<Ins("say", 0)>>
    ELSE <<Ins("print", 0), Ins("wait", ReadPolls)>>

\* the audiation branch of the step (546-585) and the cleanup (625-635)
AudiationProgram(o) ==
    Announce(o)
    \o <<Ins("wait", WaitPolls),
         Ins("play_melody_only", 0), Ins("wait", MelodyOnlyPolls),
         Ins("wait", WaitPolls),
         Ins("play_chord_and_melody", 0), Ins("wait", ChordMelodyPolls),
         Ins("wait", WaitPolls),
         Ins("cleanup", 0)>>

\* the recognition branch of the step (587-623) and the cleanup (625-635)
RecognitionProgram(o) ==
    <<Ins("play_chord_and_melody", 0), Ins("wait", ChordMelodyPolls),
      Ins("wait", WaitPolls)>>
    \o Announce(o)
    \o <<Ins("wait", WaitPolls),
         Ins("play_melody_only", 0), Ins("wait", MelodyOnlyPolls),
         Ins("wait", WaitPolls),
         Ins("cleanup", 0)>>

\* play_chord_only
HarmonyProgram == <<Ins("chord_only", 0), Ins("chord_only_end", 0)>>

\* a variant that takes the audiation branch whatever --audiate says
Program_audiation_only(o) ==
    IF o.only_harmony THEN HarmonyProgram ELSE AudiationProgram(o)

\* a variant that takes the recognition branch whatever --audiate says
Program_recognition_only(o) ==
    IF o.only_harmony THEN HarmonyProgram ELSE RecognitionProgram(o)

\* the body of the for loop of run, after get_chord_notes
Program(o) ==
    IF o.only_harmony THEN HarmonyProgram
    ELSE IF o.audiate THEN AudiationProgram(o)
    ELSE RecognitionProgram(o)

\* a variant of pygame.mixer.pause() that leaves the channels sounding
Mixer_pause_none(ch) == ch

\* pygame.mixer.pause(): every active channel is suspended
Mixer_pause(ch) ==
    [h \in DOMAIN ch |-> IF ch[h] = "playing" THEN "paused" ELSE ch[h]]

\* pygame.mixer.unpause()
Mixer_unpause(ch) ==
    [h \in DOMAIN ch |-> IF ch[h] = "paused" THEN "playing" ELSE ch[h]]

\* pygame.mixer.stop()
Mixer_stop(ch) == [h \in DOMAIN ch |-> "idle"]

chord_sequence == PROGRESSIONS[progression_name].chords

\* main(): the session is constructed, run() has not started
ProgInit ==
    /\ impl = "progression"
    /\ sig = KEY_SIGS_progression[1]
    /\ min_oct = 0 /\ max_oct = 0 /\ scale = <<>> /\ kpc = "idle"
    /\ note = "" /\ deg = 0
    /\ GenIdle
    /\ SessIdle
    /\ progression_name \in SchedProgressions
    /\ mode = PROGRESSIONS[progression_name].mode
    /\ label_ambiguities =
        ProgressionSession_analyze_label_ambiguities(
            PROGRESSIONS[progression_name].chords)
    /\ chord_name = "none"
    /\ chord_notes = <<>>
    /\ chosen_degree = "none"
    /\ melody_note = ""
    /\ label = ""
    /\ req_octave = -1
    /\ opts \in Options
    /\ paused = FALSE
    /\ stop_requested = FALSE
    /\ lpc = "off"
    /\ ppc = "init"
    /\ ci = 0
    /\ ip = 0
    /\ wpc = "none"
    /\ wdur = 0
    /\ el = 0
    /\ ran = 0
    /\ wres = "none"
    /\ chans = NoChans
    /\ mixer_paused = FALSE
    /\ events = <<>>
    /\ slept = 0
    /\ lag = -1
    /\ unlocked = {}
    /\ arg_key = "none"
    /\ arg_progression = progression_name
    /\ mpc = "run"
    /\ exit_code = -1
    /\ player = TRUE

fixedVars == <<keyVars, genVars, sessVars, progression_name, mode,
               label_ambiguities, chord_notes, chosen_degree, melody_note,
               label, req_octave, opts, mainVars>>

waitVars == <<wpc, wdur, el, ran, wres>>

\* the time the scheduler has slept since a Toggle it has not yet read,
\* after a sleep of k poll intervals (-1: no such Toggle); values beyond
\* LagCap are not told apart
Lagged(k) == IF lag = -1 THEN -1 ELSE Min(lag + k, LagCap)

\* an access to a shared flag: inside `with self._lock` or not
Access(who, flag, kind, locked) ==
    IF locked THEN unlocked ELSE unlocked \cup {<<who, flag, kind>>}

\* ---- the listener thread

\* while not self.stop_requested (read without the lock)
ListenTest ==
    /\ lpc = "test"
    /\ lpc' = IF stop_requested THEN "exited" ELSE "read"
    /\ UNCHANGED <<fixedVars, waitVars, chord_name, paused, stop_requested,
                   ppc, ci, ip, chans, mixer_paused, events>>
    /\ unlocked' = Access("listener", "stop_requested", "read", FALSE)
    /\ UNCHANGED <<slept, lag>>

\* sys.stdin.read(1) finds no key
NoKey ==
    /\ lpc = "read"
    /\ lpc' = "test"
    /\ UNCHANGED <<fixedVars, waitVars, chord_name, paused, stop_requested,
                   ppc, ci, ip, chans, mixer_paused, events>>
    /\ UNCHANGED <<slept, lag, unlocked>>

\* the space key
Toggle ==
    /\ lpc = "read"
    /\ paused' = ~paused
    /\ lpc' = "test"
    /\ UNCHANGED <<fixedVars, waitVars, chord_name, stop_requested,
                   ppc, ci, ip, chans, mixer_paused, events>>
    /\ unlocked' = Access("listener", "paused", "write", TRUE)
    /\ lag' = IF lag = -1 THEN 0 ELSE lag
    /\ UNCHANGED slept

\* q, Q or ESC
Quit ==
    /\ lpc = "read"
    /\ stop_requested' = TRUE
    /\ lpc' = "test"
    /\ UNCHANGED <<fixedVars, waitVars, chord_name, paused,
                   ppc, ci, ip, chans, mixer_paused, events>>
    /\ unlocked' = Access("listener", "stop_requested", "write", TRUE)
    /\ UNCHANGED <<slept, lag>>

\* ---- the mixer

\* a sample reaches its end
SampleEnds ==
    /\ \E h \in DOMAIN chans :
        /\ chans[h] = "playing"
        /\ chans' = [chans EXCEPT ![h] = "idle"]
    /\ UNCHANGED <<fixedVars, waitVars, chord_name, paused, stop_requested,
                   lpc, ppc, ci, ip, mixer_paused, events>>
    /\ UNCHANGED <<slept, lag, unlocked>>

\* ---- the scheduler

\* self.keyboard_listener.start()
RunStart ==
    /\ ppc = "init"
    /\ lpc' = "test"
    /\ ppc' = "scale"
    /\ UNCHANGED <<fixedVars, waitVars, chord_name, paused, stop_requested,
                   ci, ip, chans, mixer_paused, events>>
    /\ UNCHANGED <<slept, lag, unlocked>>

\* play_scale: the eight notes, 0.4 s of time.sleep after each
PlayScale ==
    /\ ppc = "scale"
    /\ chans' = [chans EXCEPT !.solo = "playing"]
    /\ events' = <<"scale">>
    /\ ppc' = "scaling"
    /\ UNCHANGED <<fixedVars, waitVars, chord_name, paused, stop_requested,
                   lpc, ci, ip, mixer_paused>>
    /\ UNCHANGED <<slept, lag, unlocked>>

\* play_scale: one poll interval of its time.sleep calls goes by
ScaleSleep ==
    /\ ppc = "scaling"
    /\ slept < ScalePolls
    /\ slept' = slept + POLL
    /\ lag' = Lagged(POLL)
    /\ UNCHANGED <<fixedVars, waitVars, chord_name, paused, stop_requested,
                   lpc, ppc, ci, ip, chans, mixer_paused, events, unlocked>>

\* play_scale: the sleeps are over; pygame.mixer.stop()
PlayScaleEnd ==
    /\ ppc = "scaling"
    /\ ~(slept < ScalePolls)
    /\ chans' = Mixer_stop(chans)
    /\ ppc' = "while"
    /\ UNCHANGED <<fixedVars, waitVars, chord_name, paused, stop_requested,
                   lpc, ci, ip, mixer_paused, events>>
    /\ slept' = 0
    /\ UNCHANGED <<lag, unlocked>>

\* while not self.keyboard_listener.should_stop()
WhileTest ==
    /\ ppc = "while"
    /\ IF stop_requested
       THEN ppc' = "returned" /\ ci' = ci
       ELSE ppc' = "for" /\ ci' = 1
    /\ UNCHANGED <<fixedVars, waitVars, chord_name, paused, stop_requested,
                   lpc, ip, chans, mixer_paused, events>>
    /\ unlocked' = Access("scheduler", "stop_requested", "read", TRUE)
    /\ UNCHANGED <<slept, lag>>

\* for chord_name in self.chord_sequence: if should_stop(): break
ForTest ==
    /\ ppc = "for"
    /\ IF ci > Len(chord_sequence) \/ stop_requested
       THEN /\ ppc' = "while"
            /\ UNCHANGED <<chord_name, ip, events>>
       ELSE /\ chord_name' = chord_sequence[ci]
            /\ events' = <<>>
            /\ ip' = 1
            /\ ppc' = "step"
    /\ UNCHANGED <<fixedVars, waitVars, paused, stop_requested, lpc, ci,
                   chans, mixer_paused>>
    /\ unlocked' = Access("scheduler", "stop_requested", "read", TRUE)
    /\ UNCHANGED <<slept, lag>>

AtOp(op) == ppc = "step" /\ Program(opts)[ip].op = op

\* play_chord_and_melody
PlayChordAndMelody ==
    /\ AtOp("play_chord_and_melody")
    /\ chans' = [chans EXCEPT !.chord = "playing", !.melody = "playing"]
    /\ events' = Append(events, "chord+melody")
    /\ ip' = ip + 1
    /\ UNCHANGED <<fixedVars, waitVars, chord_name, paused, stop_requested,
                   lpc, ppc, ci, mixer_paused>>
    /\ UNCHANGED <<slept, lag, unlocked>>

\* play_melody_only
PlayMelodyOnly ==
    /\ AtOp("play_melody_only")
    /\ chans' = [chans EXCEPT !.solo = "playing"]
    /\ events' = Append(events, "melody")
    /\ ip' = ip + 1
    /\ UNCHANGED <<fixedVars, waitVars, chord_name, paused, stop_requested,
                   lpc, ppc, ci, mixer_paused>>
    /\ UNCHANGED <<slept, lag, unlocked>>

\* say_label: the blocking speech
SayLabel ==
    /\ AtOp("say")
    /\ events' = Append(events, "say")
    /\ ip' = ip + 1
    /\ UNCHANGED <<fixedVars, waitVars, chord_name, paused, stop_requested,
                   lpc, ppc, ci, chans, mixer_paused>>
    /\ UNCHANGED <<slept, lag, unlocked>>

\* print(f"  >>> {label}")
PrintLabel ==
    /\ AtOp("print")
    /\ events' = Append(events, "print")
    /\ ip' = ip + 1
    /\ UNCHANGED <<fixedVars, waitVars, chord_name, paused, stop_requested,
                   lpc, ppc, ci, chans, mixer_paused>>
    /\ UNCHANGED <<slept, lag, unlocked>>

\* the channels of the step are stopped, then pygame.mixer.stop()
Cleanup ==
    /\ AtOp("cleanup")
    /\ chans' = Mixer_stop(chans)
    /\ ci' = ci + 1
    /\ ppc' = "for"
    /\ UNCHANGED <<fixedVars, waitVars, chord_name, paused, stop_requested,
                   lpc, ip, mixer_paused, events>>
    /\ UNCHANGED <<slept, lag, unlocked>>

\* play_chord_only: the chord starts, then time.sleep(duration)
PlayChordOnly ==
    /\ AtOp("chord_only")
    /\ chans' = [chans EXCEPT !.chord = "playing"]
    /\ events' = Append(events, "chord")
    /\ ip' = ip + 1
    /\ UNCHANGED <<fixedVars, waitVars, chord_name, paused, stop_requested,
                   lpc, ppc, ci, mixer_paused>>
    /\ UNCHANGED <<slept, lag, unlocked>>

\* play_chord_only: one poll interval of time.sleep(duration) goes by
ChordSleep ==
    /\ AtOp("chord_only_end")
    /\ slept < ChordPolls
    /\ slept' = slept + POLL
    /\ lag' = Lagged(POLL)
    /\ UNCHANGED <<fixedVars, waitVars, chord_name, paused, stop_requested,
                   lpc, ppc, ci, ip, chans, mixer_paused, events, unlocked>>

\* play_chord_only: the sleep is over; the channels are stopped, then
\* pygame.mixer.stop()
PlayChordOnlyEnd ==
    /\ AtOp("chord_only_end")
    /\ ~(slept < ChordPolls)
    /\ chans' = Mixer_stop(chans)
    /\ ci' = ci + 1
    /\ ppc' = "for"
    /\ UNCHANGED <<fixedVars, waitVars, chord_name, paused, stop_requested,
                   lpc, ip, mixer_paused, events>>
    /\ slept' = 0
    /\ UNCHANGED <<lag, unlocked>>

\* ---- wait_with_pause

\* start_time = time.time()
WaitEnter ==
    /\ AtOp("wait")
    /\ wdur' = Program(opts)[ip].d
    /\ el' = 0
    /\ ran' = 0
    /\ wres' = "none"
    /\ wpc' = "poll"
    /\ ppc' = "wait"
    /\ events' = Append(events, "wait")
    /\ UNCHANGED <<fixedVars, chord_name, paused, stop_requested, lpc, ci,
                   ip, chans, mixer_paused>>
    /\ UNCHANGED <<slept, lag, unlocked>>

\* while time.time() - start_time < duration: if should_stop(): return False
\* a wait that returns False breaks out of the for loop
WaitPoll ==
    /\ ppc = "wait" /\ wpc = "poll"
    /\ IF ~(el < wdur)
       THEN wres' = "true" /\ wpc' = "none" /\ ppc' = "step" /\ ip' = ip + 1
       ELSE IF stop_requested
       THEN wres' = "false" /\ wpc' = "none" /\ ppc' = "while" /\ ip' = ip
       ELSE wres' = wres /\ wpc' = "check" /\ ppc' = ppc /\ ip' = ip
    /\ UNCHANGED <<fixedVars, chord_name, paused, stop_requested, lpc, ci,
                   wdur, el, ran, chans, mixer_paused, events>>
    /\ unlocked' = Access("scheduler", "stop_requested", "read", TRUE)
    /\ UNCHANGED <<slept, lag>>

\* if is_paused(): pygame.mixer.pause()
WaitCheckPaused ==
    /\ ppc = "wait" /\ wpc = "check"
    /\ IF paused
       THEN /\ chans' = Mixer_pause(chans)
            /\ mixer_paused' = TRUE
            /\ wpc' = "ptest"
       ELSE /\ wpc' = "sleep"
            /\ UNCHANGED <<chans, mixer_paused>>
    /\ UNCHANGED <<fixedVars, chord_name, paused, stop_requested, lpc, ppc,
                   ci, ip, wdur, el, ran, wres, events>>
    /\ unlocked' = Access("scheduler", "paused", "read", TRUE)
    /\ lag' = -1
    /\ UNCHANGED slept

\* while is_paused(): ...; pygame.mixer.unpause()
PauseTest ==
    /\ ppc = "wait" /\ wpc = "ptest"
    /\ IF paused
       THEN /\ wpc' = "psleep"
            /\ UNCHANGED <<chans, mixer_paused>>
       ELSE /\ chans' = Mixer_unpause(chans)
            /\ mixer_paused' = FALSE
            /\ wpc' = "sleep"
    /\ UNCHANGED <<fixedVars, chord_name, paused, stop_requested, lpc, ppc,
                   ci, ip, wdur, el, ran, wres, events>>
    /\ unlocked' = Access("scheduler", "paused", "read", TRUE)
    /\ lag' = -1
    /\ UNCHANGED slept

\* time.sleep(0.1) of the inner loop: the clock of the wait goes on.  The
\* loop test only compares el with wdur, so el is kept up to wdur.
PauseSleep ==
    /\ ppc = "wait" /\ wpc = "psleep"
    /\ el' = Min(el + PAUSE_POLL, wdur)
    /\ wpc' = "pstop"
    /\ UNCHANGED <<fixedVars, chord_name, paused, stop_requested, lpc, ppc,
                   ci, ip, wdur, ran, wres, chans, mixer_paused, events>>
    /\ lag' = Lagged(PAUSE_POLL)
    /\ UNCHANGED <<slept, unlocked>>

\* a variant of the inner loop that never looks at stop
PauseStop_blind ==
    /\ ppc = "wait" /\ wpc = "pstop"
    /\ wpc' = "ptest"
    /\ UNCHANGED <<fixedVars, chord_name, paused, stop_requested, lpc, ppc,
                   ci, ip, wdur, el, ran, wres, chans, mixer_paused, events,
                   slept, lag, unlocked>>

\* if should_stop(): return False (inner loop; the mixer stays paused)
PauseStop ==
    /\ ppc = "wait" /\ wpc = "pstop"
    /\ IF stop_requested
       THEN wres' = "false" /\ wpc' = "none" /\ ppc' = "while"
       ELSE wres' = wres /\ wpc' = "ptest" /\ ppc' = ppc
    /\ UNCHANGED <<fixedVars, chord_name, paused, stop_requested, lpc, ci,
                   ip, wdur, el, ran, chans, mixer_paused, events>>
    /\ unlocked' = Access("scheduler", "stop_requested", "read", TRUE)
    /\ UNCHANGED <<slept, lag>>

\* time.sleep(0.05): the only sleep of the wait with the mixer running
WaitSleep ==
    /\ ppc = "wait" /\ wpc = "sleep"
    /\ el' = Min(el + POLL, wdur)
    /\ ran' = ran + POLL
    /\ wpc' = "poll"
    /\ UNCHANGED <<fixedVars, chord_name, paused, stop_requested, lpc, ppc,
                   ci, ip, wdur, wres, chans, mixer_paused, events>>
    /\ lag' = Lagged(POLL)
    /\ UNCHANGED <<slept, unlocked>>

\* ---- Ctrl+C

\* KeyboardInterrupt inside the try block: keyboard_listener.stop(),
\* pygame.mixer.stop(), pygame.quit()
Interrupt ==
    /\ ppc \in {"while", "for", "step", "wait"}
    /\ stop_requested' = TRUE
    /\ chans' = Mixer_stop(chans)
    /\ mixer_paused' = FALSE
    /\ wpc' = "none"
    /\ ppc' = "returned"
    /\ UNCHANGED <<fixedVars, chord_name, paused, lpc, ci, ip, wdur, el,
                   ran, wres, events>>
    /\ unlocked' = Access("scheduler", "stop_requested", "write", TRUE)
    /\ UNCHANGED <<slept, lag>>

\* KeyboardInterrupt before the try block: nothing catches it
InterruptEarly ==
    /\ ppc \in {"scale", "scaling"}
    /\ ppc' = "crashed"
    /\ UNCHANGED <<fixedVars, waitVars, chord_name, paused, stop_requested,
                   lpc, ci, ip, chans, mixer_paused, events>>
    /\ UNCHANGED <<slept, lag, unlocked>>

ProgNext ==
    \/ ListenTest \/ NoKey \/ Toggle \/ Quit
    \/ SampleEnds
    \/ RunStart \/ PlayScale \/ ScaleSleep \/ PlayScaleEnd \/ WhileTest
    \/ ForTest
    \/ PlayChordAndMelody \/ PlayMelodyOnly \/ SayLabel \/ PrintLabel
    \/ Cleanup \/ PlayChordOnly \/ ChordSleep \/ PlayChordOnlyEnd
    \/ WaitEnter \/ WaitPoll \/ WaitCheckPaused \/ PauseTest \/ PauseSleep
    \/ PauseStop \/ WaitSleep
    \/ Interrupt \/ InterruptEarly

SpecProg == ProgInit /\ [][ProgNext]_vars

Sounding(ev) == SelectSeq(ev, LAMBDA x : x # "wait" /\ x # "print")

\* C10: between pygame.mixer.pause() and the matching unpause no playback
\* handle is playing, and the scheduler starts no sound or speech event.
C10_NothingPlaysWhilePaused ==
    /\ [](mixer_paused => \A h \in DOMAIN chans : chans[h] # "playing")
    /\ [][mixer_paused => Sounding(events') = Sounding(events)]_vars

\* the chord and the melody of a step are suspended while the listener
\* toggles
C10_Witness ==
    /\ mixer_paused
    /\ chans.chord = "paused"
    /\ chans.melody = "paused"
    /\ wpc = "pstop"
    /\ lpc = "read"

-----------------------------------------------------------------------------
\* the steps of the main thread inside run()
SchedulerStep ==
    \/ RunStart \/ PlayScale \/ ScaleSleep \/ PlayScaleEnd \/ WhileTest
    \/ ForTest
    \/ PlayChordAndMelody \/ PlayMelodyOnly \/ SayLabel \/ PrintLabel
    \/ Cleanup \/ PlayChordOnly \/ ChordSleep \/ PlayChordOnlyEnd
    \/ WaitEnter \/ WaitPoll \/ WaitCheckPaused \/ PauseTest \/ PauseSleep
    \/ PauseStop \/ WaitSleep

\* the main thread keeps running: every sleep ends and every call returns
SpecProgFair == ProgInit /\ [][ProgNext]_vars /\ WF_vars(SchedulerStep)

\* run() has returned, or was ended by Ctrl+C before its try block
Ended == ppc \in {"returned", "crashed"}

\* C11: after the first wait that observes stop (it returns False) the
\* scheduler issues no further play or speech event, and once stop is set
\* run() eventually ends, also when stop arrives during a pause.
C11_StopAbandonsStep ==
    /\ [][wres = "false" => Sounding(events') = Sounding(events)]_vars
    /\ (stop_requested ~> Ended)

\* stop was observed by the inner loop of a pause, and run() returned
C11_Witness ==
    /\ wres = "false"
    /\ mixer_paused
    /\ paused
    /\ ppc = "returned"

\* C12: when run() has returned, teardown has run: no playback handle is
\* left playing or paused, and the listener has been stopped.
C12_TeardownBeforeReturn ==
    ppc = "returned" =>
        /\ \A h \in DOMAIN chans : chans[h] = "idle"
        /\ stop_requested

\* C13: the session starts Running (paused and stop both false), a step
\* that changes paused changes no other flag, and Stopped is terminal: once
\* stop_requested is true it stays true and paused no longer changes.
C13_StoppedIsTerminal ==
    /\ [](ppc = "init" => (~paused /\ ~stop_requested))
    /\ [][paused' # paused => stop_requested' = stop_requested]_vars
    /\ [][stop_requested => (stop_requested' /\ paused' = paused)]_vars

\* C14: every run of the progression session ends once its time budget is
\* used up, even if no quit signal is ever issued: the main thread keeps
\* running and, in a run that is never paused, time goes on, so run()
\* eventually ends.
C14_RunEndsAtBudget == ([](~paused)) => <>Ended

\* C15: every read and every write of paused and stop_requested, by the
\* listener thread and by the scheduler, is made while holding the lock of
\* the listener.
C15_FlagsUnderLock == unlocked = {}

\* C16: every wait of the scheduler polls the flags at the poll interval:
\* the scheduler never sleeps longer than one poll interval (the longer of
\* the two, that of the pause loop) after a Toggle without reading paused.
C16_TogglePolledInEveryWait == lag <= PAUSE_POLL

\* the events with each run of consecutive waits taken as one wait
RECURSIVE Collapse(_)
Collapse(ev) ==
    IF Len(ev) <= 1 THEN ev
    ELSE IF ev[1] = "wait" /\ ev[2] = "wait" THEN Collapse(Tail(ev))
    ELSE <<ev[1]>> \o Collapse(Tail(ev))

IsPrefix(a, b) == Len(a) <= Len(b) /\ SubSeq(b, 1, Len(a)) = a

\* the label is spoken, or printed with --no-voice
Announcement == IF opts.no_voice THEN "print" ELSE "say"

InStep == ppc \in {"step", "wait"}

AllStopped == \A h \in DOMAIN chans : chans[h] = "idle"

RecognitionMode == ~opts.only_harmony /\ ~opts.audiate

RecognitionOrder ==
    <<"chord+melody", "wait", Announcement, "wait", "melody", "wait">>

\* C17: in recognition mode the events of a harmonic step come in the order
\* chord+melody, wait, announcement, wait, melody alone, wait: the events so
\* far are always a prefix of it, a step that reaches its end has issued all
\* of it, and a step starts with every channel stopped.
C17_RecognitionOrder ==
    (RecognitionMode /\ InStep) =>
        /\ IsPrefix(Collapse(events), RecognitionOrder)
        /\ AtOp("cleanup") => Collapse(events) = RecognitionOrder
        /\ (ppc = "step" /\ ip = 1) => AllStopped

\* the second step of a recognition run is about to stop its channels
C17_Witness ==
    /\ RecognitionMode
    /\ AtOp("cleanup")
    /\ ci = 2
    /\ events = <<"chord+melody", "wait", "wait", "say", "wait", "melody",
                  "wait", "wait">>

AudiationMode == ~opts.only_harmony /\ opts.audiate

AudiationOrder ==
    <<Announcement, "wait", "melody", "wait", "chord+melody", "wait">>

\* C18: in audiation mode the events of a harmonic step come in the order
\* announcement, wait, melody alone, wait, chord+melody, wait; the first
\* event of a step is the announcement of its label, before any sound.
C18_AudiationOrder ==
    (AudiationMode /\ InStep) =>
        /\ IsPrefix(Collapse(events), AudiationOrder)
        /\ AtOp("cleanup") => Collapse(events) = AudiationOrder
        /\ events # <<>> => events[1] = Announcement

\* an audiation step without voice has issued all its events
C18_Witness ==
    /\ AudiationMode
    /\ opts.no_voice
    /\ AtOp("cleanup")
    /\ events = <<"print", "wait", "wait", "melody", "wait", "wait",
                  "chord+melody", "wait", "wait">>

\* C19: a missing sample is reported and only its note is skipped: no
\* exception from a missing sample ends the session.
C19_MissingSampleSkipped == spc # "failed"

-----------------------------------------------------------------------------
\* progression.py: main()

Lower == "abcdefghijklmnopqrstuvwxyz"

UpperCase == "ABCDEFGHIJKLMNOPQRSTUVWXYZ"

\* str.upper() of one character
UpperChar(c) ==
    IF \E i \in 1..Len(Lower) : SubSeq(Lower, i, i) = c
    THEN LET i == CHOOSE j \in 1..Len(Lower) : SubSeq(Lower, j, j) = c
         IN  SubSeq(UpperCase, i, i)
    ELSE c

\* str.upper()
RECURSIVE Upper(_)
Upper(str) ==
    IF Len(str) = 0 THEN ""
    ELSE UpperChar(SubSeq(str, 1, 1)) \o Upper(SubSeq(str, 2, Len(str)))

KeyMapNames ==
    {"C", "G", "D", "A", "E", "B", "F",
     "BB", "EB", "AB", "DB", "GB", "F#", "AM",
     "EM", "BM", "F#M", "C#M", "G#M", "DM", "GM",
     "CM", "FM", "BBM", "EBM"}

key_map ==
    [k \in KeyMapNames |->
        CASE k = "C" ->
                <<"C", "D", "E", "F", "G", "A", "B">>
          [] k = "G" ->
                <<"G", "A", "B", "C", "D", "E", "F#">>
          [] k = "D" ->
                <<"D", "E", "F#", "G", "A", "B", "C#">>
          [] k = "A" ->
                <<"A", "B", "C#", "D", "E", "F#", "G#">>
          [] k = "E" ->
                <<"E", "F#", "G#", "A", "B", "C#", "D#">>
          [] k = "B" ->
                <<"B", "C#", "D#", "E", "F#", "G#", "A#">>
          [] k = "F" ->
                <<"F", "G", "A", "Bb", "C", "D", "E">>
          [] k = "BB" ->
                <<"Bb", "C", "D", "Eb", "F", "G", "A">>
          [] k = "EB" ->
                <<"Eb", "F", "G", "Ab", "Bb", "C", "D">>
          [] k = "AB" ->
                <<"Ab", "Bb", "C", "Db", "Eb", "F", "G">>
          [] k = "DB" ->
                <<"Db", "Eb", "F", "Gb", "Ab", "Bb", "C">>
          [] k = "GB" ->
                <<"Gb", "Ab", "Bb", "Cb", "Db", "Eb", "F">>
          [] k = "F#" ->
                <<"F#", "G#", "A#", "B", "C#", "D#", "E#">>
          [] k = "AM" ->
                <<"C", "D", "E", "F", "G", "A", "B">>
          [] k = "EM" ->
                <<"G", "A", "B", "C", "D", "E", "F#">>
          [] k = "BM" ->
                <<"D", "E", "F#", "G", "A", "B", "C#">>
          [] k = "F#M" ->
                <<"A", "B", "C#", "D", "E", "F#", "G#">>
          [] k = "C#M" ->
                <<"E", "F#", "G#", "A", "B", "C#", "D#">>
          [] k = "G#M" ->
                <<"B", "C#", "D#", "E", "F#", "G#", "A#">>
          [] k = "DM" ->
                <<"F", "G", "A", "Bb", "C", "D", "E">>
          [] k = "GM" ->
                <<"Bb", "C", "D", "Eb", "F", "G", "A">>
          [] k = "CM" ->
                <<"Eb", "F", "G", "Ab", "Bb", "C", "D">>
          [] k = "FM" ->
                <<"Ab", "Bb", "C", "Db", "Eb", "F", "G">>
          [] k = "BBM" ->
                <<"Db", "Eb", "F", "Gb", "Ab", "Bb", "C">>
          [] k = "EBM" ->
                <<"Gb", "Ab", "Bb", "Cb", "Db", "Eb", "F">>]

\* the values of --key followed here ("none": the option is absent);
\* "H", "Cb" and "do" are no key of key_map
KeyArgs == {"none", "C", "g", "Dm", "f#", "bb", "Ebm", "H", "Cb", "do"}

\* the values of --progression followed here; "blues" is no progression
ProgressionArgs == ProgressionNames \cup {"blues"}

\* the program starts: nothing is parsed, no mixer, no session
MainInit ==
    /\ impl = "progression"
    /\ sig = <<>>
    /\ min_oct = 0 /\ max_oct = 0 /\ scale = <<>> /\ kpc = "idle"
    /\ note = "" /\ deg = 0
    /\ GenIdle
    /\ SessIdle
    /\ LabelIdle
    /\ opts \in Options
    /\ paused = FALSE
    /\ stop_requested = FALSE
    /\ lpc = "off"
    /\ ppc = "off"
    /\ ci = 0
    /\ ip = 0
    /\ wpc = "none"
    /\ wdur = 0
    /\ el = 0
    /\ ran = 0
    /\ wres = "none"
    /\ chans = NoChans
    /\ mixer_paused = FALSE
    /\ events = <<>>
    /\ slept = 0
    /\ lag = -1
    /\ unlocked = {}
    /\ arg_key \in KeyArgs
    /\ arg_progression \in ProgressionArgs
    /\ mpc = "parse"
    /\ exit_code = -1
    /\ player = FALSE

mainFixed == <<impl, min_oct, max_oct, scale, kpc, note, deg, genVars,
               sessVars, chord_name, chord_notes, chosen_degree, melody_note,
               label, req_octave, opts, paused, stop_requested, lpc, ci, ip, wpc, wdur,
               el, ran, wres, chans, mixer_paused, events, slept, lag,
               unlocked, arg_key, arg_progression>>

\* parser.parse_args(): --progression has choices, so argparse ends the
\* program with status 2 on any other name
ParseArgs ==
    /\ mpc = "parse"
    /\ IF arg_progression \in ProgressionNames
       THEN mpc' = "key" /\ exit_code' = exit_code
       ELSE mpc' = "exited" /\ exit_code' = 2
    /\ UNCHANGED <<mainFixed, sig, mode, progression_name, label_ambiguities,
                   ppc, player>>

\* the key: key_map[args.key.upper()], else (with a warning when a key was
\* given) random.choice(KEY_SIGS); the mode is that of the progression
SelectKey ==
    /\ mpc = "key"
    /\ IF arg_key # "none" /\ Upper(arg_key) \in KeyMapNames
       THEN sig' = key_map[Upper(arg_key)]
       ELSE sig' \in {KEY_SIGS_progression[i] :
                        i \in DOMAIN KEY_SIGS_progression}
    /\ mode' = PROGRESSIONS[arg_progression].mode
    /\ mpc' = "player"
    /\ UNCHANGED <<mainFixed, progression_name, label_ambiguities, ppc,
                   exit_code, player>>

\* Player(...): pygame.mixer.init()
CreatePlayer ==
    /\ mpc = "player"
    /\ player' = TRUE
    /\ mpc' = "session"
    /\ UNCHANGED <<mainFixed, sig, mode, progression_name, label_ambiguities,
                   ppc, exit_code>>

\* ProgressionSession(...), then session.run() is called
CreateSession ==
    /\ mpc = "session"
    /\ progression_name' = arg_progression
    /\ label_ambiguities' =
        ProgressionSession_analyze_label_ambiguities(
            PROGRESSIONS[arg_progression].chords)
    /\ ppc' = "init"
    /\ mpc' = "run"
    /\ UNCHANGED <<mainFixed, sig, mode, exit_code, player>>

MainNext == ParseArgs \/ SelectKey \/ CreatePlayer \/ CreateSession

SpecMain == MainInit /\ [][MainNext]_vars

\* the command line names a key or a progression the program does not know
ConfigError ==
    \/ arg_key # "none" /\ Upper(arg_key) \notin KeyMapNames
    \/ arg_progression \notin ProgressionNames

\* C20: on an unknown key name or progression name the program exits
\* non-zero, before Player is constructed and before any session is
\* created.
C20_ConfigErrorExitsEarly ==
    ConfigError =>
        /\ ~player
        /\ mpc \notin {"session", "run"}
        /\ mpc = "exited" => exit_code # 0

(***************************************************************************)
(* Further claims about the chunk generators.                              *)
(***************************************************************************)
\* the index run start, start+step, ... of the last scale_chunk stays
\* inside the scale
NoWrapRun ==
    \A i \in 0..(draw.size - 1) : draw.at + i * draw.step \in 0..(Len(scale) - 1)

\* C21: a scale_chunk whose index run does not wrap has strictly increasing
\* absolute pitches when ascending and strictly decreasing ones when
\* descending; consecutive notes are always adjacent scale positions modulo
\* the scale length.
C21_ScaleChunkMonotone ==
    shape = "scale" =>
        /\ NoWrapRun =>
              \A i \in 1..(Len(chunk) - 1) :
                 IF draw.step = 1
                 THEN AbsPitch(chunk[i]) < AbsPitch(chunk[i+1])
                 ELSE AbsPitch(chunk[i]) > AbsPitch(chunk[i+1])
        /\ \A i \in 1..(Len(chunk) - 1) :
              IndexOf(scale, chunk[i+1]) =
                  wrap(IndexOf(scale, chunk[i]) + draw.step, Len(scale))

\* a descending run of 12 notes from the top of the scale
C21_Witness ==
    /\ shape = "scale"
    /\ draw.step = -1 /\ draw.size = 12 /\ draw.at = Len(scale) - 1
    /\ NoWrapRun
    /\ AbsPitch(chunk[1]) > AbsPitch(chunk[2])
    /\ AbsPitch(chunk[11]) > AbsPitch(chunk[12])

\* the offsets of the triad inside one cycle of the pattern +2,+2,+3
TriadOffsets == <<0, 2, 4>>

\* the scale index of the k-th note (k from 0) of an arpeggio on root
ArpeggioIndex(root, k, len) ==
    wrap(root + 7 * (k \div 3) + TriadOffsets[(k % 3) + 1], len)

\* the scale indices of the notes of the last chunk
ChunkIndices == [i \in 1..Len(chunk) |-> IndexOf(scale, chunk[i])]

\* C22: the k-th note (k from 0) of arpeggio_chunk is the scale note at
\* index wrap(root + 7*(k div 3) + (0,2,4)[k mod 3], len); for root 0 over a
\* 21-note scale the indices are 0,2,4,7,9,11,14,... modulo 21.
C22_ArpeggioIndices ==
    shape = "arpeggio" =>
        /\ \A k \in 0..(Len(chunk) - 1) :
              chunk[k + 1] = scale[ArpeggioIndex(draw.at, k, Len(scale)) + 1]
        /\ (draw.at = 0 /\ Len(scale) = 21 /\ draw.size = 17) =>
              ChunkIndices =
                 <<0, 2, 4, 7, 9, 11, 14, 16, 18, 0, 2, 4, 7, 9, 11, 14, 16>>

\* the longest arpeggio on root 0 of a 21-note scale: it wraps after 9 notes
C22_Witness ==
    /\ shape = "arpeggio"
    /\ draw.at = 0 /\ Len(scale) = 21 /\ draw.size = 17
    /\ Len(chunk) = 17
    /\ chunk[9] = scale[19] /\ chunk[10] = scale[1]

(***************************************************************************)
(* Further claims about the expanded scale.                                *)
(***************************************************************************)
\* the pitch class of a note of the scale
PitchClass(nt) == NOTE_TO_SEMI(NoteSpelling(nt))

\* the signature note that follows the last note of the scale
NextInSignature == sig[(Len(scale) % Len(sig)) + 1]

\* C23: the first note of the expanded scale has octave min_oct; from a
\* note to the next the octave rises by exactly 1 when the pitch class
\* descends and is unchanged otherwise; no note has an octave above
\* max_oct, and the scale ends just before the note that would exceed it.
C23_OctaveRule ==
    kpc # "new" =>
        /\ Len(scale) > 0
        /\ NoteOctave(scale[1]) = min_oct
        /\ \A i \in 1..(Len(scale) - 1) :
              NoteOctave(scale[i+1]) =
                  NoteOctave(scale[i]) +
                  (IF PitchClass(scale[i]) > PitchClass(scale[i+1]) THEN 1 ELSE 0)
        /\ \A i \in 1..Len(scale) : NoteOctave(scale[i]) <= max_oct
        /\ \A i \in 1..Len(scale) :
              NoteSpelling(scale[i]) = sig[((i - 1) % Len(sig)) + 1]
        /\ NoteOctave(scale[Len(scale)]) = max_oct
        /\ PitchClass(scale[Len(scale)]) > NOTE_TO_SEMI(NextInSignature)

\* a scale over several octaves that stops inside a pass of the signature
C23_Witness ==
    /\ kpc = "built"
    /\ min_oct < max_oct
    /\ Len(scale) % Len(sig) # 0
    /\ NoteOctave(scale[1]) = min_oct
    /\ NoteOctave(scale[Len(scale)]) = max_oct
    /\ \E i \in 1..(Len(scale) - 1) :
          NoteOctave(scale[i+1]) = NoteOctave(scale[i]) + 1

\* the triad of the last generation: practice.py, chord or chord-melody
IsTriad == impl = "practice" /\ shape \in {"chord", "chord-melody"}

\* the scale degrees of the notes of the last chunk
ChunkDegrees == {Key_degree(sig, chunk[i]) : i \in 1..Len(chunk)}

\* C24: Gen.triad returns exactly the scale notes at [r, r+2, r+4] (root
\* inversion), [r+2, r+4, r+7] (first) or [r+4, r+7, r+9] (second); they
\* are strictly ascending in absolute pitch and have the scale degrees
\* {r, r+2, r+4} mod 7 in every inversion.
C24_TriadInversions ==
    IsTriad =>
        LET r == draw.at
        IN  /\ Len(chunk) = 3
            /\ draw.inv = 0 => ChunkIndices = <<r, r + 2, r + 4>>
            /\ draw.inv = 1 => ChunkIndices = <<r + 2, r + 4, r + 7>>
            /\ draw.inv = 2 => ChunkIndices = <<r + 4, r + 7, r + 9>>
            /\ AbsPitch(chunk[1]) < AbsPitch(chunk[2])
            /\ AbsPitch(chunk[2]) < AbsPitch(chunk[3])
            /\ ChunkDegrees = {r % 7, (r + 2) % 7, (r + 4) % 7}

\* a second inversion on the highest admissible root: it ends on the last
\* note of the scale
C24_Witness ==
    /\ IsTriad
    /\ draw.inv = 2
    /\ draw.at = Len(scale) - 10
    /\ chunk[3] = scale[Len(scale)]
    /\ Key_degree(sig, chunk[2]) = draw.at % 7

\* C25: every note of an arpeggio chunk lies on the triad of its root (its
\* degree is d, d+2 or d+4 mod 7, d the degree of the root note), and every
\* full cycle of three steps moves exactly one octave up, for every
\* signature, root and size, also when the index wraps past the end of the
\* scale.
C25_ArpeggioOnTriad ==
    shape = "arpeggio" =>
        LET d == Key_degree(sig, chunk[1])
        IN  /\ \A i \in 1..Len(chunk) :
                  Key_degree(sig, chunk[i]) \in {d, (d + 2) % 7, (d + 4) % 7}
            /\ \A i \in 1..(Len(chunk) - 3) :
                  AbsPitch(chunk[i + 3]) = AbsPitch(chunk[i]) + 12

(***************************************************************************)
(* Further claims about the practice session.                              *)
(***************************************************************************)
\* the 1-based degrees of the roots of the cadence chords
CadenceRoots == [k \in 1..Len(cad) |-> cad[k].degs[1] + 1]

\* the cadence of practice.py is as Session._cadence builds it
CadenceShape ==
    (impl = "practice" /\ spc # "off") =>
        /\ Len(cad) = 4
        /\ CadenceRoots = IF ton = "major" THEN <<1, 4, 5, 1>> ELSE <<6, 2, 3, 6>>
        /\ \A k \in 1..4 :
              LET r == CadenceRoots[k]
              IN  cad[k].notes = <<scale[r], scale[r + 2], scale[r + 4]>>
        /\ cad[1] = cad[4]

\* C26: the cadence has exactly 4 chords with the 1-based root degrees
\* [1,4,5,1] (major) or [6,2,3,6] (minor); each chord is the three scale
\* notes at [degree, degree+2, degree+4]; the first and the last chord are
\* identical; run() never changes the cadence.
C26_Cadence ==
    /\ []CadenceShape
    /\ [][cad' = cad]_vars

\* a finished major session that played the cadence at least twice
C26_Witness ==
    /\ impl = "practice"
    /\ ton = "major"
    /\ spc = "done"
    /\ count > CAD_FREQ
    /\ cad[2].notes = <<"F3", "A3", "C4">>

(***************************************************************************)
(* The dispatch of a chunk in Session.run (practice.py), call by call.     *)
(* Every Player.chord and Player.note blocks for NOTE_DUR seconds.         *)
(***************************************************************************)
\* the loop iterations followed call by call
MaxChunks == 2

\* self.p.chord(notes, degs, False)
ChordCall(notes, dg) == [op |-> "chord", notes |-> notes, degs |-> dg, secs |-> NOTE_DUR]

\* self.p.note(n, False, d)
NoteCall(n, d) == [op |-> "note", notes |-> <<n>>, degs |-> <<d>>, secs |-> NOTE_DUR]

\* time.sleep(t)
SleepCall(t) == [op |-> "sleep", notes |-> <<>>, degs |-> <<>>, secs |-> t]

\* Session._pitch: base,octv = n[:-1],int(n[-1]); octv*12+NOTE_TO_SEMI[base]
Session_pitch(n) ==
    DigitVal(SubSeq(n, Len(n), Len(n))) * 12 + NOTE_TO_SEMI(StripLast(n))

\* max(notes, key=self._pitch): the first note of the greatest pitch
MaxByPitch(notes) ==
    notes[CHOOSE i \in 1..Len(notes) :
             /\ \A j \in 1..Len(notes) : Session_pitch(notes[j]) <= Session_pitch(notes[i])
             /\ \A j \in 1..(i - 1) : Session_pitch(notes[j]) < Session_pitch(notes[i])]

\* for n,d in zip(notes,degs): self.p.note(n,False,d)
NoteCalls(notes, dg) == [i \in 1..Len(notes) |-> NoteCall(notes[i], dg[i])]

\* the dispatch of run(): the calls and sleeps made for a chunk, in order
Dispatch(kind, notes, dg) ==
    CASE kind = "chord" ->
           <<ChordCall(notes, dg), SleepCall(6), ChordCall(notes, dg)>>
      [] kind = "chord-melody" ->
           LET top     == MaxByPitch(notes)
               top_deg == Key_degree(sig, top)
           IN  <<ChordCall(notes, dg), SleepCall(1), NoteCall(top, top_deg),
                 SleepCall(5),
                 ChordCall(notes, dg), SleepCall(1), NoteCall(top, top_deg)>>
      [] kind = "arpeggio" ->
           NoteCalls(notes, dg) \o <<SleepCall(6)>> \o NoteCalls(notes, dg)
      [] OTHER -> NoteCalls(notes, dg)

\* a session of practice.py at the start of run()
DispatchInit ==
    /\ SessInit
    /\ impl = "practice"

\* the body of the while loop is entered at most MaxChunks times
DispatchDiscard ==
    /\ count < MaxChunks
    /\ Discard

DispatchAccept ==
    /\ count < MaxChunks
    /\ Accept

\* if self.count%self.CAD_FREQ==0: the four cadence chords
PlayCadence ==
    /\ spc = "chunk"
    /\ spc' = "dispatch"
    /\ log' = IF CadenceDue(count) THEN Append(log, "cadence") ELSE log
    /\ now' = now + (IF CadenceDue(count) THEN CadenceDur ELSE 0)
    /\ played' = <<>>
    /\ UNCHANGED <<keyVars, genVars, ton, cad, count, degs, labelVars, progVars>>

\* the next call or sleep of the dispatch
Strike ==
    /\ spc = "dispatch"
    /\ Len(played) < Len(Dispatch(shape, chunk, degs))
    /\ LET call == Dispatch(shape, chunk, degs)[Len(played) + 1]
       IN  /\ played' = Append(played, call)
           /\ now' = now + call.secs
    /\ spc' = IF Len(played') = Len(Dispatch(shape, chunk, degs))
              THEN "played" ELSE "dispatch"
    /\ UNCHANGED <<keyVars, genVars, ton, cad, count, degs, log, labelVars,
                   progVars>>

\* self.count+=1, back to the while test; kind, notes and degs are
\* assigned anew before run() reads them again
CountUp ==
    /\ spc = "played"
    /\ count' = count + 1
    /\ log' = Append(log, "chunk")
    /\ spc' = "loop"
    /\ degs' = <<>>
    /\ played' = <<>>
    /\ shape' = "none"
    /\ draw' = NoDraw
    /\ chunk' = <<>>
    /\ UNCHANGED <<keyVars, ton, cad, now, labelVars, progVars>>

DispatchNext ==
    \/ ScaleWalk
    \/ DispatchDiscard
    \/ DispatchAccept
    \/ PlayCadence
    \/ Strike
    \/ CountUp

SpecDispatch == DispatchInit /\ [][DispatchNext]_vars

\* C27: a chord-melody chunk is played as: chord, 1 s wait, the triad's
\* highest-pitched note alone, a longer rest, then the same chord, 1 s wait
\* and the same note again (exactly two chord/note pairs); the note played
\* alone is the last element of the triad, because chord and chord-melody
\* chunks are never reversed before playback.
C27_ChordMelodyEvents ==
    /\ (spc \in {"chunk", "dispatch", "played"}
          /\ shape \in {"chord", "chord-melody"}) =>
          chunk = Gen_triad(scale, draw.at, draw.inv)
    /\ (spc = "played" /\ shape = "chord-melody") =>
          LET top  == chunk[Len(chunk)]
              pair == <<ChordCall(chunk, degs), SleepCall(1),
                        NoteCall(top, Key_degree(sig, top))>>
          IN  /\ \A i \in 1..(Len(chunk) - 1) : AbsPitch(chunk[i]) < AbsPitch(top)
              /\ Len(played) = 7
              /\ SubSeq(played, 1, 3) = pair
              /\ played[4].op = "sleep" /\ played[4].secs > 1
              /\ SubSeq(played, 5, 7) = pair

\* the second chunk of a session is a chord-melody chunk in first
\* inversion and has been played
C27_Witness ==
    /\ spc = "played"
    /\ shape = "chord-melody"
    /\ draw.inv = 1
    /\ count = 1
    /\ Len(played) = 7
    /\ played[7].notes = <<scale[draw.at + 8]>>

\* the notes of the expanded scale of the session
ScaleNotes == {scale[i] : i \in 1..Len(scale)}

\* the notes of the cadence chords (practice.py: four chords; tones9: one)
CadenceNotes ==
    IF impl = "practice"
    THEN UNION {{cad[k].notes[i] : i \in 1..Len(cad[k].notes)} : k \in 1..Len(cad)}
    ELSE {cad[i] : i \in 1..Len(cad)}

\* C28: every note of every chunk and of every cadence chord is an element
\* of the expanded scale of the session, the note at scale index i has
\* degree i mod 7, and no degree lookup of the session loop fails, after any
\* sequence of generated chunks.
C28_NotesInKey ==
    spc # "off" =>
        /\ \A i \in 1..Len(chunk) : chunk[i] \in ScaleNotes
        /\ CadenceNotes \subseteq ScaleNotes
        /\ \A i \in 1..Len(scale) : Key_degree(sig, scale[i]) = (i - 1) % 7
        /\ \A i \in 1..Len(degs) : degs[i] = (IndexOf(scale, chunk[i])) % 7
        /\ spc # "crashed"

\* after some chunks, the longest arpeggio from the last note of the scale
\* was accepted (it wraps) and its degrees were looked up
C28_Witness ==
    /\ impl = "practice"
    /\ spc = "chunk"
    /\ count > 0
    /\ shape = "arpeggio"
    /\ draw.size = 17 /\ draw.at = Len(scale) - 1
    /\ Len(degs) = 17
    /\ degs[2] = 1

(***************************************************************************)
(* The scale indices practice.py reads without wrapping.                   *)
(***************************************************************************)
\* Gen.triad: random.randrange(0, self.len-9)
TriadRoots(len) == 0..(len - 9 - 1)

\* Session._cadence: roots, and the indices r, r+2, r+4 read for them
CadenceIndices(tonality) ==
    LET roots == IF tonality = "major" THEN {0, 3, 4} ELSE {5, 1, 2}
    IN  UNION {{r, r + 2, r + 4} : r \in roots}

\* Session.run: range(0,8) for major, range(5,13) for minor
WalkIndices(tonality) == IF tonality = "major" THEN 0..7 ELSE 5..12

\* C29: for every signature of KEY_SIGS over the default octaves [3,5],
\* every scale index practice.py uses is inside the expanded scale: the
\* range of triad roots is not empty and root+9 <= len-1, and the cadence
\* indices and the indices of the opening scale walk are < len.
C29_IndicesInRange ==
    impl = "practice" =>
        LET len == Len(scale)
        IN  /\ TriadRoots(len) # {}
            /\ \A root \in TriadRoots(len) : root + 9 <= len - 1
            /\ \A t \in {"major", "minor"} :
                  /\ \A i \in CadenceIndices(t) : i < len
                  /\ \A i \in WalkIndices(t) : i < len
            /\ IsTriad =>
                  /\ draw.at \in TriadRoots(len)
                  /\ \A i \in 1..3 : ChunkIndices[i] \in 0..(len - 1)

\* on a shortest scale (15 notes) the second inversion on the highest root
\* reads the last note of the scale
C29_Witness ==
    /\ impl = "practice"
    /\ Len(scale) = 15
    /\ IsTriad
    /\ draw.inv = 2
    /\ draw.at = 5
    /\ chunk[3] = scale[15]

-----------------------------------------------------------------------------
\* progression.py: Key.solfege_to_note on the syllables of the chords

\* the keys of SOLFEGE_TO_SEMI
SolfegeNames ==
    {"do", "di", "ra", "re", "ri", "me", "mi", "fa", "fi", "se", "sol", "si",
     "le", "la", "li", "te", "ti"}

\* a key of either mode on a signature of KEY_SIGS; nothing converted yet
SolfegeInit ==
    /\ impl = "progression"
    /\ sig \in {KEY_SIGS_progression[i] : i \in DOMAIN KEY_SIGS_progression}
    /\ min_oct = 0 /\ max_oct = 0 /\ scale = <<>> /\ kpc = "idle"
    /\ note = "" /\ deg = 0
    /\ GenIdle
    /\ SessIdle
    /\ progression_name = "none"
    /\ mode \in {"minor", "major"}
    /\ label_ambiguities = <<>>
    /\ chord_name = "none"
    /\ chord_notes = <<>>
    /\ chosen_degree = "none"
    /\ melody_note = ""
    /\ label = ""
    /\ req_octave = -1
    /\ ProgIdle

\* self.key.solfege_to_note(deg, octave) for a degree of a chord definition
SolfegeToNote ==
    /\ chosen_degree = "none"
    /\ \E c \in ChordNames, octave \in 0..OctHi :
         \E k \in DOMAIN CHORD_DEFS[c].degrees :
            /\ chord_name' = c
            /\ chosen_degree' = CHORD_DEFS[c].degrees[k]
            /\ req_octave' = octave
            /\ melody_note' =
                 Key_solfege_to_note(sig, mode, CHORD_DEFS[c].degrees[k], octave)
    /\ UNCHANGED <<keyVars, genVars, sessVars, progVars, progression_name,
                   mode, label_ambiguities, chord_notes, label>>

SolfegeNext == SolfegeToNote

SpecSolfege == SolfegeInit /\ [][SolfegeNext]_vars

\* the other mode
OtherMode == IF mode = "minor" THEN "major" ELSE "minor"

\* C30: for every signature, every syllable of a chord definition and every
\* octave, solfege_to_note returns a note whose pitch class is (pitch class
\* of the first note of the signature + semitone offset of the syllable)
\* mod 12, the same in major and in minor mode (la is the 6th note of the
\* signature, do the 1st), carrying exactly the requested octave; the
\* fallbacks (offset 0 of an unknown syllable, "C" + octave) are not reached.
C30_SolfegeToNote ==
    chosen_degree # "none" =>
        LET target == (NOTE_TO_SEMI(sig[1]) + SOLFEGE_TO_SEMI(chosen_degree)) % 12
        IN  /\ chosen_degree \in SolfegeNames
            /\ \E i \in DOMAIN NOTE_NAMES : NOTE_TO_SEMI(NOTE_NAMES[i]) = target
            /\ PitchClass(melody_note) = target
            /\ NoteOctave(melody_note) = req_octave
            /\ melody_note =
                 Key_solfege_to_note(sig, OtherMode, chosen_degree, req_octave)
            /\ chosen_degree = "la" => PitchClass(melody_note) = NOTE_TO_SEMI(sig[6])
            /\ chosen_degree = "do" => PitchClass(melody_note) = NOTE_TO_SEMI(sig[1])

\* si in a minor key on the signature of G flat, asked in octave 10:
\* pitch class (6 + 8) mod 12 = 2, the note is D10
C30_Witness ==
    /\ mode = "minor"
    /\ sig[1] = "Gb"
    /\ chosen_degree = "si"
    /\ req_octave = 10
    /\ melody_note = "D10"

=============================================================================
